---- MODULE Spec2Model ----
(***************************************************************************)
(* Model of go-magento-cron-monitor: the analyzer's per-job state, its     *)
(* four stuck-condition heuristics, the not_alerting/alerting transition   *)
(* tracker and the monitor service's polling loop.                         *)
(*                                                                         *)
(* Time is the wall clock in whole minutes.  A time.Time is an integer,    *)
(* the zero time.Time{} is ZeroTime (far in the past), a time.Duration is  *)
(* a number of minutes.  An optional value (a Go pointer, a sql.NullTime  *)
(* or sql.NullString) is a sequence of length 0 (nil, not valid) or 1.     *)
(***************************************************************************)
EXTENDS Integers, Sequences, FiniteSets, TLC

VARIABLES
    now,            \* wall clock (minutes)
    pc,             \* position of Service.Start: "check" (about to call runCheck), "select"
                    \* or "returned"
    stopped,        \* Service.ctx is cancelled: Stop was called
    polls,          \* number of runCheck calls made so far
    config,         \* *config.Config, fixed after construction
    env,            \* what the database and the clock may do in this run, fixed
    jobStates,      \* Analyzer.jobStates: map job code -> JobState
    schedulerState, \* Analyzer.schedulerState
    alerts,         \* runCheck's alerts list of the last runCheck, per JobCode
    transitions,    \* what DetectStateTransitions returned in the last runCheck, per job
    notifications,  \* the Slack alerts sent in the last runCheck, per job
    alertLog,       \* history: every alert Analyze surfaced, per job, oldest first
    transLog,       \* history: every transition emitted and every removal of the job's state, per job
    pollLog,        \* history: summary of the polls seen by each job
    call,           \* arguments of a function applied on its own (<<>> in the polling loop)
    ret             \* what that function returned

vars == <<now, pc, stopped, polls, config, env, jobStates, schedulerState, alerts, transitions,
          notifications, alertLog, transLog, pollLog, call, ret>>

----------------------------------------------------------------------------
(* Bounds of the model *)

MaxPolls == 3
MaxRecords == 2
MaxScanLen == 5
MaxSlackPolls == 4

(* Program constants *)

ZeroTime == -100000
SuppressMinutes == 5
CleanupMinutes == 1440

Jobs == {"A"}
Kinds == {"running", "pending", "error", "missed"}

Min(S) == CHOOSE m \in S : \A n \in S : m <= n

----------------------------------------------------------------------------
(* database.CronSchedule rows.  A template is a row without its job code   *)
(* and with the age of executed_at instead of the timestamp.               *)

Templates ==
    { [Status |-> "running", Exec |-> <<40>>, Msg |-> <<>>],
      [Status |-> "running", Exec |-> <<30>>, Msg |-> <<>>],
      [Status |-> "pending", Exec |-> <<>>,   Msg |-> <<>>],
      [Status |-> "success", Exec |-> <<1>>,  Msg |-> <<>>],
      [Status |-> "error",   Exec |-> <<1>>,  Msg |-> <<"boom">>],
      [Status |-> "missed",  Exec |-> <<>>,   Msg |-> <<>>] }

CronSchedule(job, tpl, t) ==
    [JobCode    |-> job,
     Status     |-> tpl.Status,
     Messages   |-> tpl.Msg,
     ExecutedAt |-> IF tpl.Exec = <<>> THEN <<>> ELSE <<t - tpl.Exec[1]>>]

SeqsUpTo(S, n) == UNION { [1..k -> S] : k \in 0..n }

\* the result sets GetRecentCronSchedules can return at time t
TemplateSeqs == SeqsUpTo(Jobs \X Templates, MaxRecords)

\* the result sets GetRecentCronSchedules can return at time t
Batches(t) ==
    { [i \in 1..Len(q) |-> CronSchedule(q[i][1], q[i][2], t)] : q \in TemplateSeqs }

----------------------------------------------------------------------------
(* config.Config *)

DetectionConfig ==
    [MaxRunningTime             |-> 30,
     MaxPendingCount            |-> 1,
     ConsecutiveErrors          |-> 1,
     MaxMissedCount             |-> 1,
     LookbackWindow             |-> 60,
     ThresholdChecks            |-> 2,
     SchedulerInactivityMinutes |-> 0,
     SchedulerLookaheadMinutes  |-> 0]

CronGroupConfig(name, thresholdChecks) ==
    [Name              |-> name,
     MaxRunningTime    |-> <<>>,
     MaxPendingCount   |-> <<>>,
     ConsecutiveErrors |-> <<>>,
     MaxMissedCount    |-> <<>>,
     ThresholdChecks   |-> thresholdChecks]

SlackConfig(enabled) ==
    [Enabled          |-> enabled,
     AlertCooldown    |-> 4,
     SendRecovery     |-> TRUE,
     RecoveryCooldown |-> 2]

Configs ==
    { [Detection  |-> DetectionConfig,
       CronGroups |-> groups,
       Slack      |-> SlackConfig(enabled)] :
        groups \in { <<>>,
                     <<CronGroupConfig("A", <<1>>)>>,
                     <<CronGroupConfig("A", <<3>>), CronGroupConfig("A", <<1>>)>> },
        enabled \in BOOLEAN }

\* GetDetectionConfig without the break: the last group of that name wins
GetDetectionConfigNoBreak(c, groupName) ==
    LET idx == { i \in 1..Len(c.CronGroups) : c.CronGroups[i].Name = groupName }
        Set(field) == { i \in idx : c.CronGroups[i][field] # <<>> }
        Pick(field) ==
            IF Set(field) = {} THEN c.Detection[field]
            ELSE c.CronGroups[CHOOSE i \in Set(field) : \A k \in Set(field) : k <= i][field][1]
    IN [c.Detection EXCEPT
          !.MaxRunningTime    = Pick("MaxRunningTime"),
          !.MaxPendingCount   = Pick("MaxPendingCount"),
          !.ConsecutiveErrors = Pick("ConsecutiveErrors"),
          !.MaxMissedCount    = Pick("MaxMissedCount"),
          !.ThresholdChecks   = Pick("ThresholdChecks")]

GetDetectionConfig(c, groupName) ==
    LET idx == { i \in 1..Len(c.CronGroups) : c.CronGroups[i].Name = groupName }
        Pick(field) ==
            IF idx = {} \/ c.CronGroups[Min(idx)][field] = <<>>
            THEN c.Detection[field]
            ELSE c.CronGroups[Min(idx)][field][1]
    IN [c.Detection EXCEPT
          !.MaxRunningTime    = Pick("MaxRunningTime"),
          !.MaxPendingCount   = Pick("MaxPendingCount"),
          !.ConsecutiveErrors = Pick("ConsecutiveErrors"),
          !.MaxMissedCount    = Pick("MaxMissedCount"),
          !.ThresholdChecks   = Pick("ThresholdChecks")]

----------------------------------------------------------------------------
(* analyzer.JobState and logger.StuckCronAlert *)

NewJobState(jobCode) ==
    [JobCode          |-> jobCode,
     ConsecutiveStuck |-> 0,
     LastStatus       |-> "",
     LastChecked      |-> ZeroTime,
     LastAlertTime    |-> ZeroTime,
     ErrorStreak      |-> 0,
     MissedStreak     |-> 0,
     LastSlackAlert   |-> ZeroTime,
     LastKnownState   |-> "",
     StuckSince       |-> ZeroTime]

StuckCronAlert(jobCode, status, reason, consecutiveStuck) ==
    [JobCode          |-> jobCode,
     Status           |-> status,
     Reason           |-> reason,
     ConsecutiveStuck |-> consecutiveStuck,
     RunningTime      |-> <<>>,
     PendingCount     |-> 0,
     ErrorCount       |-> 0,
     MissedCount      |-> 0,
     ErrorMessage     |-> ""]

\* fmt's %s of a time.Duration of whole minutes
DurationString(d) == IF d = 0 THEN "0s" ELSE ToString(d) \o "m0s"

Count(schedules, status) ==
    Cardinality({ i \in 1..Len(schedules) : schedules[i].Status = status })

----------------------------------------------------------------------------
(* The four heuristics.  Each returns the job state as the call leaves it  *)
(* and the alert it returns (<<>> for nil).                                *)

\* LongRunningOver with >= for >
LongRunningAtOrOver(schedules, cfg, t) ==
    { i \in 1..Len(schedules) :
        /\ schedules[i].Status = "running"
        /\ schedules[i].ExecutedAt # <<>>
        /\ t - schedules[i].ExecutedAt[1] >= cfg.MaxRunningTime }

\* LongRunningOver that looks at the first running, started record only
LongRunningFirstOnly(schedules, cfg, t) ==
    { i \in 1..Len(schedules) :
        /\ schedules[i].Status = "running"
        /\ schedules[i].ExecutedAt # <<>>
        /\ t - schedules[i].ExecutedAt[1] > cfg.MaxRunningTime
        /\ \A k \in 1..(i - 1) :
              ~(schedules[k].Status = "running" /\ schedules[k].ExecutedAt # <<>>) }

\* the records checkLongRunning's loop stops at: running, started, over the threshold
LongRunningOver(schedules, cfg, t) ==
    { i \in 1..Len(schedules) :
        /\ schedules[i].Status = "running"
        /\ schedules[i].ExecutedAt # <<>>
        /\ t - schedules[i].ExecutedAt[1] > cfg.MaxRunningTime }

\* ResetStreak without the assignment
ResetStreakForgotten(state) == state

\* "state.ConsecutiveStuck = 0" at the end of checkLongRunning
ResetStreak(state) == [state EXCEPT !.ConsecutiveStuck = 0]

\* ReachedThreshold with > for >=
ReachedThresholdStrict(state, cfg) == state.ConsecutiveStuck > cfg.ThresholdChecks

\* "if state.ConsecutiveStuck >= cfg.ThresholdChecks" of checkLongRunning
ReachedThreshold(state, cfg) == state.ConsecutiveStuck >= cfg.ThresholdChecks

checkLongRunning(schedules, cfg, state, t) ==
    LET over == LongRunningOver(schedules, cfg, t)
    IN IF over # {}
       THEN LET s  == schedules[Min(over)]
                st == [state EXCEPT !.ConsecutiveStuck = @ + 1]
            IN [state |-> st,
                alert |-> IF ReachedThreshold(st, cfg)
                          THEN << [StuckCronAlert(s.JobCode, s.Status,
                                     "job running longer than max_running_time threshold ("
                                        \o DurationString(cfg.MaxRunningTime) \o ")",
                                     st.ConsecutiveStuck)
                                   EXCEPT !.RunningTime = <<t - s.ExecutedAt[1]>>] >>
                          ELSE <<>>]
       ELSE [state |-> ResetStreak(state), alert |-> <<>>]

\* LastStatusIs that holds whatever the marker
LastStatusIsAny(state, marker) == TRUE

\* "state.LastStatus == "...""
LastStatusIs(state, marker) == state.LastStatus = marker

\* PendingOver with >= for >
PendingAtOrOver(pendingCount, cfg) == pendingCount >= cfg.MaxPendingCount

PendingOver(pendingCount, cfg) == pendingCount > cfg.MaxPendingCount

checkPendingAccumulation(schedules, cfg, state, t) ==
    LET pendingCount == Count(schedules, "pending")
    IN IF PendingOver(pendingCount, cfg)
       THEN LET st == [state EXCEPT !.ConsecutiveStuck = @ + 1]
            IN [state |-> st,
                alert |-> IF st.ConsecutiveStuck >= cfg.ThresholdChecks
                          THEN << [StuckCronAlert(state.JobCode, "pending",
                                     "too many pending jobs (" \o ToString(pendingCount)
                                        \o " exceeds threshold of "
                                        \o ToString(cfg.MaxPendingCount) \o ")",
                                     st.ConsecutiveStuck)
                                   EXCEPT !.PendingCount = pendingCount] >>
                          ELSE <<>>]
       ELSE [state |-> IF LastStatusIs(state, "pending_accumulation")
                       THEN [state EXCEPT !.ConsecutiveStuck = 0]
                       ELSE state,
             alert |-> <<>>]

\* ScanErrors without the break at the first success record
RECURSIVE ScanErrorsNoBreak(_, _, _)
ScanErrorsNoBreak(schedules, limit, i) ==
    IF i = 0
    THEN [errorCount |-> 0, lastError |-> <<>>, stopped |-> FALSE]
    ELSE LET p == ScanErrorsNoBreak(schedules, limit, i - 1)
         IN IF i > limit THEN p
            ELSE IF schedules[i].Status = "error"
                 THEN [errorCount |-> p.errorCount + 1,
                       lastError  |-> IF p.lastError = <<>> THEN <<schedules[i]>> ELSE p.lastError,
                       stopped    |-> FALSE]
                 ELSE p

\* the loop of checkConsecutiveErrors: the scan state after looking at
\* schedules[1..i]
RECURSIVE ScanErrors(_, _, _)
ScanErrors(schedules, limit, i) ==
    IF i = 0
    THEN [errorCount |-> 0, lastError |-> <<>>, stopped |-> FALSE]
    ELSE LET p == ScanErrors(schedules, limit, i - 1)
         IN IF p.stopped \/ i > limit THEN p
            ELSE IF schedules[i].Status = "error"
                 THEN [errorCount |-> p.errorCount + 1,
                       lastError  |-> IF p.lastError = <<>> THEN <<schedules[i]>> ELSE p.lastError,
                       stopped    |-> FALSE]
                 ELSE IF schedules[i].Status = "success"
                      THEN [p EXCEPT !.stopped = TRUE]
                      ELSE p

ErrorsOver(errorCount, cfg) == errorCount >= cfg.ConsecutiveErrors

checkConsecutiveErrors(schedules, cfg, state, t) ==
    LET scan       == ScanErrors(schedules, cfg.ConsecutiveErrors * 2, Len(schedules))
        errorCount == scan.errorCount
    IN IF ErrorsOver(errorCount, cfg)
       THEN LET st == [state EXCEPT !.ErrorStreak = errorCount, !.ConsecutiveStuck = @ + 1]
            IN [state |-> st,
                alert |-> IF st.ConsecutiveStuck >= cfg.ThresholdChecks
                          THEN << [StuckCronAlert(state.JobCode, "error",
                                     "consecutive errors detected (" \o ToString(errorCount)
                                        \o " meets threshold of "
                                        \o ToString(cfg.ConsecutiveErrors) \o ")",
                                     st.ConsecutiveStuck)
                                   EXCEPT !.ErrorCount = errorCount,
                                          !.ErrorMessage =
                                              IF scan.lastError # <<>> /\ scan.lastError[1].Messages # <<>>
                                              THEN scan.lastError[1].Messages[1]
                                              ELSE ""] >>
                          ELSE <<>>]
       ELSE [state |-> [state EXCEPT !.ErrorStreak = 0,
                                     !.ConsecutiveStuck =
                                         IF LastStatusIs(state, "consecutive_errors") THEN 0 ELSE @],
             alert |-> <<>>]

MissedOver(missedCount, cfg) == missedCount >= cfg.MaxMissedCount

checkMissedExecutions(schedules, cfg, state, t) ==
    LET missedCount == Count(schedules, "missed")
    IN IF MissedOver(missedCount, cfg)
       THEN LET st == [state EXCEPT !.MissedStreak = missedCount, !.ConsecutiveStuck = @ + 1]
            IN [state |-> st,
                alert |-> IF st.ConsecutiveStuck >= cfg.ThresholdChecks
                          THEN << [StuckCronAlert(state.JobCode, "missed",
                                     "too many missed executions (" \o ToString(missedCount)
                                        \o " exceeds threshold of "
                                        \o ToString(cfg.MaxMissedCount) \o ")",
                                     st.ConsecutiveStuck)
                                   EXCEPT !.MissedCount = missedCount] >>
                          ELSE <<>>]
       ELSE [state |-> [state EXCEPT !.MissedStreak = 0,
                                     !.ConsecutiveStuck =
                                         IF LastStatusIs(state, "missed_executions") THEN 0 ELSE @],
             alert |-> <<>>]

----------------------------------------------------------------------------
(* Analyzer.Analyze *)

\* the records of one job, in the order of the batch
GroupByJob(schedules, jobCode) == SelectSeq(schedules, LAMBDA s : s.JobCode = jobCode)

JobCodes(schedules) == { schedules[i].JobCode : i \in 1..Len(schedules) }

\* Surface without the check of the suppression window
SurfaceUnsuppressed(acc, r, t) ==
    IF r.alert # <<>>
    THEN [state  |-> [r.state EXCEPT !.LastAlertTime = t],
          alerts |-> acc.alerts \o r.alert]
    ELSE [state |-> r.state, alerts |-> acc.alerts]

\* "if alert != nil { if time.Since(state.LastAlertTime) >= 5*time.Minute {...} }"
\* acc is [state, alerts]; r is the result of one heuristic run on acc.state
Surface(acc, r, t) ==
    IF r.alert # <<>> /\ t - r.state.LastAlertTime >= SuppressMinutes
    THEN [state  |-> [r.state EXCEPT !.LastAlertTime = t],
          alerts |-> acc.alerts \o r.alert]
    ELSE [state |-> r.state, alerts |-> acc.alerts]

\* one "if alert := a.checkX(...); alert != nil {...}" block of Analyze's loop,
\* run on the accumulated [state, alerts]
SurfaceLongRunning(acc, schedList, cfg, t) ==
    Surface(acc, checkLongRunning(schedList, cfg, acc.state, t), t)

SurfacePendingAccumulation(acc, schedList, cfg, t) ==
    Surface(acc, checkPendingAccumulation(schedList, cfg, acc.state, t), t)

SurfaceConsecutiveErrors(acc, schedList, cfg, t) ==
    Surface(acc, checkConsecutiveErrors(schedList, cfg, acc.state, t), t)

SurfaceMissedExecutions(acc, schedList, cfg, t) ==
    Surface(acc, checkMissedExecutions(schedList, cfg, acc.state, t), t)

\* the four blocks in the order of the code
SurfaceAll(acc, schedList, cfg, t) ==
    SurfaceMissedExecutions(
        SurfaceConsecutiveErrors(
            SurfacePendingAccumulation(
                SurfaceLongRunning(acc, schedList, cfg, t),
                schedList, cfg, t),
            schedList, cfg, t),
        schedList, cfg, t)

\* the body of Analyze's loop for one job: the state it leaves and the
\* alerts it appends
AnalyzeJob(c, states, schedules, jobCode, t) ==
    SurfaceAll([state  |-> [(IF jobCode \in DOMAIN states THEN states[jobCode]
                             ELSE NewJobState(jobCode))
                               EXCEPT !.LastChecked = t],
                alerts |-> <<>>],
               GroupByJob(schedules, jobCode), GetDetectionConfig(c, jobCode), t)

\* cleanupOldStates that also removes a state checked exactly 24 hours ago
cleanupOldStatesAtCutoff(states, t) ==
    [j \in { k \in DOMAIN states : ~(states[k].LastChecked <= t - CleanupMinutes) } |-> states[j]]

cleanupOldStates(states, t) ==
    LET cutoff == t - CleanupMinutes
        keep   == { j \in DOMAIN states : ~(states[j].LastChecked < cutoff) }
    IN [j \in keep |-> states[j]]

\* [states, alerts]: the map after the call and the alerts returned, per job
Analyze(c, states, schedules, t) ==
    LET present == JobCodes(schedules)
        res     == [j \in present |-> AnalyzeJob(c, states, schedules, j, t)]
        looped  == [j \in (DOMAIN states) \cup present |->
                       IF j \in present THEN res[j].state ELSE states[j]]
    IN [states |-> cleanupOldStates(looped, t),
        alerts |-> [j \in Jobs |-> IF j \in present THEN res[j].alerts ELSE <<>>]]

----------------------------------------------------------------------------
(* Analyzer.DetectStateTransitions *)

\* "if a.checkX(schedules, cfg, state) != nil { return ... }": the next
\* heuristic runs only when the one before returned nil.  r is [state, alert].
OrPendingAccumulation(r, schedules, cfg, t) ==
    IF r.alert # <<>> THEN r ELSE checkPendingAccumulation(schedules, cfg, r.state, t)

OrConsecutiveErrors(r, schedules, cfg, t) ==
    IF r.alert # <<>> THEN r ELSE checkConsecutiveErrors(schedules, cfg, r.state, t)

OrMissedExecutions(r, schedules, cfg, t) ==
    IF r.alert # <<>> THEN r ELSE checkMissedExecutions(schedules, cfg, r.state, t)

\* the heuristics in the order of the code, up to the first that alerts
FirstAlert(schedules, cfg, state, t) ==
    OrMissedExecutions(
        OrConsecutiveErrors(
            OrPendingAccumulation(checkLongRunning(schedules, cfg, state, t),
                                  schedules, cfg, t),
            schedules, cfg, t),
        schedules, cfg, t)

HealthOf(r) == [state |-> r.state, healthy |-> r.alert = <<>>]

\* [state, healthy]
isJobHealthy(schedules, cfg, state, t) == HealthOf(FirstAlert(schedules, cfg, state, t))

\* ReasonOf that always falls back
ReasonOfFallback(r) ==
    [state  |-> r.state,
     reason |-> "Multiple issues detected requiring attention"]

ReasonOf(r) ==
    [state  |-> r.state,
     reason |-> IF r.alert # <<>> THEN r.alert[1].Reason
                ELSE "Multiple issues detected requiring attention"]

\* [state, reason]
getActualAlertReason(schedules, cfg, state, t) == ReasonOf(FirstAlert(schedules, cfg, state, t))

StateTransition(cronCode, from, to, t, stuckDuration, reason, consecutiveStuck) ==
    [CronCode         |-> cronCode,
     FromState        |-> from,
     ToState          |-> to,
     Timestamp        |-> t,
     StuckDuration    |-> stuckDuration,
     Reason           |-> reason,
     ConsecutiveStuck |-> consecutiveStuck]

\* MarkStuckSince without the assignment
MarkStuckSinceForgotten(state, t) == state

\* "state.StuckSince = time.Now()" of the not_alerting -> alerting branch
MarkStuckSince(state, t) == [state EXCEPT !.StuckSince = t]

\* SetKnownState without the assignment
SetKnownStateForgotten(state, known) == state

\* "state.LastKnownState = ..." at the end of either branch
SetKnownState(state, known) == [state EXCEPT !.LastKnownState = known]

\* "if state.LastKnownState == "" { state.LastKnownState = "not_alerting" }"
InitKnownState(state) ==
    IF state.LastKnownState = "" THEN [state EXCEPT !.LastKnownState = "not_alerting"]
    ELSE state

\* the end of the not_alerting -> alerting branch; g is getActualAlertReason's result
AlertingTransition(g, jobCode, t) ==
    [state       |-> SetKnownState(g.state, "alerting"),
     transitions |-> << StateTransition(jobCode, "not_alerting", "alerting", t, 0,
                                        g.reason, g.state.ConsecutiveStuck) >>]

\* DetectAlerting that does not look at the stored state
DetectAlertingRepeated(healthy, state, schedList, cfg, jobCode, t) ==
    IF ~healthy
    THEN AlertingTransition(
             getActualAlertReason(schedList, cfg, MarkStuckSince(state, t), t), jobCode, t)
    ELSE [state |-> state, transitions |-> <<>>]

\* "if !isNotAlerting && state.LastKnownState == "not_alerting" {...}"
DetectAlerting(healthy, state, schedList, cfg, jobCode, t) ==
    IF ~healthy /\ state.LastKnownState = "not_alerting"
    THEN AlertingTransition(
             getActualAlertReason(schedList, cfg, MarkStuckSince(state, t), t), jobCode, t)
    ELSE [state |-> state, transitions |-> <<>>]

\* "if isNotAlerting && state.LastKnownState == "alerting" {...}"; r is
\* [state, transitions] as the branch before left them
DetectRecovery(healthy, r, jobCode, t) ==
    IF healthy /\ r.state.LastKnownState = "alerting"
    THEN [state       |-> [SetKnownState(r.state, "not_alerting") EXCEPT !.StuckSince = ZeroTime],
          transitions |-> r.transitions \o
                          << StateTransition(jobCode, "alerting", "not_alerting", t,
                                             t - r.state.StuckSince, "", 0) >>]
    ELSE r

\* the two branches after isJobHealthy returned h
DetectFrom(h, schedList, cfg, jobCode, t) ==
    DetectRecovery(h.healthy,
                   DetectAlerting(h.healthy, InitKnownState(h.state), schedList, cfg, jobCode, t),
                   jobCode, t)

DetectGrouped(state, schedList, cfg, jobCode, t) ==
    DetectFrom(isJobHealthy(schedList, cfg, state, t), schedList, cfg, jobCode, t)

\* the body of DetectStateTransitions' loop for one job whose state exists:
\* [state, transitions]
DetectJob(c, state, schedules, jobCode, t) ==
    DetectGrouped(state, GroupByJob(schedules, jobCode), GetDetectionConfig(c, jobCode),
                  jobCode, t)

\* [states, transitions]
DetectStateTransitions(c, states, schedules, t) ==
    LET tracked == JobCodes(schedules) \cap DOMAIN states
        res     == [j \in tracked |-> DetectJob(c, states[j], schedules, j, t)]
    IN [states |-> [j \in DOMAIN states |->
                       IF j \in tracked THEN res[j].state ELSE states[j]],
        transitions |-> [j \in Jobs |->
                       IF j \in tracked THEN res[j].transitions ELSE <<>>]]

----------------------------------------------------------------------------
(* Analyzer.CheckSchedulerHealth.  recent and upcoming are the results of  *)
(* GetRecentlyCreatedJobCount and GetUpcomingPendingJobCount: [err, count] *)

NewSchedulerState == [ConsecutiveInactive |-> 0, LastAlertTime |-> ZeroTime]

QueryResults == { [err |-> TRUE, count |-> 0], [err |-> FALSE, count |-> 0], [err |-> FALSE, count |-> 1] }

\* SchedulerThresholdChecks without the default
SchedulerThresholdChecksRaw(cfg) == cfg.ThresholdChecks

\* "thresholdChecks := cfg.ThresholdChecks; if thresholdChecks == 0 { thresholdChecks = 2 }"
SchedulerThresholdChecks(cfg) == IF cfg.ThresholdChecks = 0 THEN 2 ELSE cfg.ThresholdChecks

\* SchedulerQueryFailed that looks at the first query only
SchedulerQueryFailedFirstOnly(recent, upcoming) == recent.err

\* either "if err != nil { return nil }"
SchedulerQueryFailed(recent, upcoming) == recent.err \/ upcoming.err

\* SchedulerActive with "and" for "or"
SchedulerActiveBoth(recent, upcoming) == recent.count > 0 /\ upcoming.count > 0

\* "if recentCount > 0 || upcomingCount > 0"
SchedulerActive(recent, upcoming) == recent.count > 0 \/ upcoming.count > 0

\* SchedulerSuppressed without the suppression
SchedulerSuppressedNever(state, t) == FALSE

\* "if time.Since(a.schedulerState.LastAlertTime) < 5*time.Minute"
SchedulerSuppressed(state, t) == t - state.LastAlertTime < SuppressMinutes

\* [state, alert]
CheckSchedulerHealth(c, state, recent, upcoming, t) ==
    LET cfg == c.Detection
        inactivityMinutes == IF cfg.SchedulerInactivityMinutes = 0 THEN 10
                             ELSE cfg.SchedulerInactivityMinutes
        lookaheadMinutes  == IF cfg.SchedulerLookaheadMinutes = 0 THEN 15
                             ELSE cfg.SchedulerLookaheadMinutes
        thresholdChecks   == SchedulerThresholdChecks(cfg)
        inactive == [state EXCEPT !.ConsecutiveInactive = @ + 1]
    IN IF SchedulerQueryFailed(recent, upcoming) THEN [state |-> state, alert |-> <<>>]
       ELSE IF SchedulerActive(recent, upcoming)
            THEN [state |-> [state EXCEPT !.ConsecutiveInactive = 0], alert |-> <<>>]
       ELSE IF inactive.ConsecutiveInactive < thresholdChecks
            THEN [state |-> inactive, alert |-> <<>>]
       ELSE IF SchedulerSuppressed(inactive, t)
            THEN [state |-> inactive, alert |-> <<>>]
       ELSE [state |-> [inactive EXCEPT !.LastAlertTime = t],
             alert |-> << StuckCronAlert("SCHEDULER", "inactive",
                             "no jobs created in last " \o ToString(inactivityMinutes)
                                \o " minutes and no pending jobs scheduled for next "
                                \o ToString(lookaheadMinutes) \o " minutes",
                             inactive.ConsecutiveInactive) >>]

----------------------------------------------------------------------------
(* Service.handleStateTransition.  enrichedAlert is <<>> or the alert of   *)
(* runCheck's alertMap; sendOk tells whether slackClient.SendAlert         *)
(* succeeds.  Returns the job state and the Slack alerts sent.             *)

\* CooldownActive that never holds
CooldownNeverActive(state, t, cooldown) == FALSE

\* "!state.LastSlackAlert.IsZero() && now.Sub(state.LastSlackAlert) < cooldown"
CooldownActive(state, t, cooldown) ==
    state.LastSlackAlert # ZeroTime /\ t - state.LastSlackAlert < cooldown

handleStateTransition(c, state, transition, t, enrichedAlert, sendOk) ==
    LET skip == [state |-> state, sent |-> <<>>]
        toAlerting == transition.ToState = "alerting"
        cooldown == IF toAlerting THEN c.Slack.AlertCooldown ELSE c.Slack.RecoveryCooldown
        slackAlert ==
            [Type             |-> IF toAlerting THEN "alerting" ELSE "not_alerting",
             CronCode         |-> transition.CronCode,
             StuckDuration    |-> transition.StuckDuration,
             Timestamp        |-> t,
             Reason           |-> IF enrichedAlert # <<>> THEN enrichedAlert[1].Reason ELSE "",
             ConsecutiveStuck |-> IF enrichedAlert # <<>> THEN enrichedAlert[1].ConsecutiveStuck ELSE 0]
    IN IF transition.ToState \notin {"alerting", "not_alerting"} THEN skip
       ELSE IF ~toAlerting /\ ~c.Slack.SendRecovery THEN skip
       ELSE IF CooldownActive(state, t, cooldown) THEN skip
       ELSE IF ~sendOk THEN skip
       ELSE [state |-> [state EXCEPT !.LastSlackAlert = t], sent |-> <<slackAlert>>]

\* the loop over one job's transitions in runCheck, from the i-th on: [state, sent]
RECURSIVE HandleFrom(_, _, _, _, _, _, _)
HandleFrom(c, state, trans, enrichedAlert, t, sendOk, i) ==
    IF i > Len(trans) THEN [state |-> state, sent |-> <<>>]
    ELSE LET r    == handleStateTransition(c, state, trans[i], t, enrichedAlert, sendOk)
             rest == HandleFrom(c, r.state, trans, enrichedAlert, t, sendOk, i + 1)
         IN [state |-> rest.state, sent |-> r.sent \o rest.sent]

\* runCheck's alertMap: the last alert of the list for each job code
AlertMap(alertList) ==
    [j \in DOMAIN alertList |->
        IF alertList[j] = <<>> THEN <<>> ELSE <<alertList[j][Len(alertList[j])]>>]

----------------------------------------------------------------------------
(* History variables *)

EmptyOut == [j \in Jobs |-> <<>>]

\* the stuck conditions that hold on the records of one job
Detected(schedList, cfg, t) ==
    { k \in Kinds :
        \/ k = "running" /\ LongRunningOver(schedList, cfg, t) # {}
        \/ k = "pending" /\ PendingOver(Count(schedList, "pending"), cfg)
        \/ k = "error"   /\ ErrorsOver(ScanErrors(schedList, cfg.ConsecutiveErrors * 2,
                                                  Len(schedList)).errorCount, cfg)
        \/ k = "missed"  /\ MissedOver(Count(schedList, "missed"), cfg) }

\* no pending, error or missed record and no running record over the threshold
CleanBatch(schedList, cfg, t) ==
    /\ Count(schedList, "pending") = 0
    /\ Count(schedList, "error") = 0
    /\ Count(schedList, "missed") = 0
    /\ \A i \in 1..Len(schedList) :
          (schedList[i].Status = "running" /\ schedList[i].ExecutedAt # <<>>)
             => t - schedList[i].ExecutedAt[1] <= cfg.MaxRunningTime

\* Analyze sets the job's ConsecutiveStuck to 0 at some point of this poll
CounterReset(schedList, cfg, state, t) ==
    \/ LongRunningOver(schedList, cfg, t) = {}
    \/ state.LastStatus = "pending_accumulation" /\ ~PendingOver(Count(schedList, "pending"), cfg)
    \/ state.LastStatus = "consecutive_errors"
         /\ ~ErrorsOver(ScanErrors(schedList, cfg.ConsecutiveErrors * 2, Len(schedList)).errorCount, cfg)
    \/ state.LastStatus = "missed_executions" /\ ~MissedOver(Count(schedList, "missed"), cfg)

\* clean:   every batch so far was clean for the job
\* since:   polls completed since the job's state was created or its counter last set to 0
\* streak:  for each condition, the number of consecutive polls, up to the last, it held on
\* pending: the number of pending records of the job in the last poll
\* sent:    for each type, the time of the last Slack notification of that type
\*          sent for the job before the last poll, ZeroTime if there is none
\* owed:    the last notification sent for the job before the last poll was
\*          an alerting one
\* born:    the time of the poll that created the job's present state
NewPollLog ==
    [clean |-> TRUE, since |-> 0, streak |-> [k \in Kinds |-> 0], pending |-> 0,
     sent |-> [ty \in {"alerting", "not_alerting"} |-> ZeroTime], owed |-> FALSE,
     born |-> ZeroTime]

\* the summary the notifications of the last poll leave for the next one
LogSent(log, sent) ==
    [ty \in {"alerting", "not_alerting"} |->
        IF \E i \in 1..Len(sent) : sent[i].Type = ty
        THEN sent[CHOOSE i \in 1..Len(sent) :
                     sent[i].Type = ty /\ \A k \in (i + 1)..Len(sent) : sent[k].Type # ty].Timestamp
        ELSE log.sent[ty]]

LogOwed(log, sent) ==
    IF sent = <<>> THEN log.owed ELSE sent[Len(sent)].Type = "alerting"

\* the job's summary after a poll that evaluated the batch schedules
LogPoll(log, c, states, schedules, j, t) ==
    LET schedList == GroupByJob(schedules, j)
        cfg == GetDetectionConfig(c, j)
        det == Detected(schedList, cfg, t)
    IN IF j \in JobCodes(schedules)
       THEN [clean  |-> log.clean /\ CleanBatch(schedList, cfg, t),
             since  |-> IF j \notin DOMAIN states \/ CounterReset(schedList, cfg, states[j], t)
                        THEN 1 ELSE log.since + 1,
             streak |-> [k \in Kinds |-> IF k \in det THEN log.streak[k] + 1 ELSE 0],
             pending |-> Count(schedList, "pending"),
             sent   |-> LogSent(log, notifications[j]),
             owed   |-> LogOwed(log, notifications[j]),
             born   |-> IF j \notin DOMAIN states THEN t ELSE log.born]
       ELSE [clean  |-> log.clean,
             since  |-> log.since + 1,
             streak |-> [k \in Kinds |-> 0],
             pending |-> 0,
             sent   |-> LogSent(log, notifications[j]),
             owed   |-> LogOwed(log, notifications[j]),
             born   |-> log.born]

\* the scheduler check's summary:
\* run:    consecutive polls, up to the last, in which both count queries
\*         succeeded and returned 0
\* base:   ConsecutiveInactive before the first poll of that run
\* before: ConsecutiveInactive and LastAlertTime before the last poll
\* quiet:  no SCHEDULER alert in the 5 minutes before the last poll
NewSchedulerLog == [run |-> 0, base |-> 0, before |-> NewSchedulerState, quiet |-> TRUE]

BothZero(recent, upcoming) ==
    /\ ~recent.err /\ ~upcoming.err
    /\ recent.count = 0 /\ upcoming.count = 0

\* the summary after a poll that ran the scheduler check on state
LogScheduler(log, state, recent, upcoming, t) ==
    [run    |-> IF BothZero(recent, upcoming) THEN log.run + 1 ELSE 0,
     base   |-> IF ~BothZero(recent, upcoming) THEN 0
                ELSE IF log.run = 0 THEN state.ConsecutiveInactive ELSE log.base,
     before |-> state,
     quiet  |-> t - state.LastAlertTime >= SuppressMinutes]

NewPollLogs ==
    [j \in Jobs \cup {"SCHEDULER"} |-> IF j \in Jobs THEN NewPollLog ELSE NewSchedulerLog]

----------------------------------------------------------------------------
(* The environment: what the clock and the database do in a run *)

AnyEnv ==
    [steps     |-> {3, 1441},
     scenario  |-> <<>>,
     polls     |-> MaxPolls,
     fetchErr  |-> TRUE,
     scheduler |-> { <<[err |-> FALSE, count |-> 1], [err |-> FALSE, count |-> 0]>> },
     sendErr   |-> TRUE,
     record    |-> FALSE]

\* every batch shows exactly the stuck condition kind, for every job
SingleEnv(kind) ==
    [AnyEnv EXCEPT !.scenario = <<{{kind}}>>, !.fetchErr = FALSE, !.record = TRUE]

\* the batches the database returns at time t: any, or (scenario) those on
\* which, for every job, the stuck conditions that hold are one of the given sets
FetchResults(e, c, t) ==
    (IF e.fetchErr THEN { [err |-> TRUE, rows |-> <<>>] } ELSE {}) \cup
    { [err |-> FALSE, rows |-> b] :
        b \in { x \in Batches(t) :
                  e.scenario # <<>> =>
                     \A j \in Jobs :
                        Detected(GroupByJob(x, j), GetDetectionConfig(c, j), t) \in e.scenario[1] } }

----------------------------------------------------------------------------
(* The polling loop: Service.Start and Service.runCheck *)

Init ==
    /\ now = 0
    /\ pc = "check"
    /\ polls = 0
    /\ stopped = FALSE
    /\ config \in Configs
    /\ env = AnyEnv
    /\ jobStates = << >>
    /\ schedulerState = NewSchedulerState
    /\ alerts = [j \in Jobs \cup {"SCHEDULER"} |-> <<>>]
    /\ transitions = EmptyOut
    /\ notifications = EmptyOut
    /\ alertLog = EmptyOut
    /\ transLog = EmptyOut
    /\ pollLog = NewPollLogs
    /\ call = <<>>
    /\ ret = <<>>

\* "case <-ticker.C": the ticker fires dt minutes after the previous check
Tick(dt) ==
    /\ pc = "select"
    /\ polls < env.polls
    /\ now' = now + dt
    /\ pc' = "check"
    /\ UNCHANGED <<stopped, polls, config, env, jobStates, schedulerState, alerts, transitions,
                   notifications, alertLog, transLog, pollLog, call, ret>>

\* the inputs of the last runCheck, kept when the run asks for it
Record(inputs) == IF env.record THEN inputs ELSE call

\* RunCheckFailed that also drops the job states
RunCheckFailedForgetting ==
    /\ alerts' = [j \in Jobs \cup {"SCHEDULER"} |-> <<>>]
    /\ transitions' = EmptyOut
    /\ notifications' = EmptyOut
    /\ pollLog' = [j \in Jobs \cup {"SCHEDULER"} |->
                       IF j \in Jobs
                       THEN [pollLog[j] EXCEPT !.since = @ + 1,
                                               !.streak = [k \in Kinds |-> 0],
                                               !.pending = 0,
                                               !.sent = LogSent(pollLog[j], notifications[j]),
                                               !.owed = LogOwed(pollLog[j], notifications[j])]
                       ELSE [NewSchedulerLog EXCEPT !.before = schedulerState]]
    /\ call' = Record([fetchErr |-> TRUE, rows |-> <<>>, sendOk |-> TRUE,
                       recent |-> [err |-> TRUE, count |-> 0],
                       upcoming |-> [err |-> TRUE, count |-> 0]])
    /\ jobStates' = << >>
    /\ UNCHANGED <<schedulerState, alertLog, transLog>>

\* runCheck when GetRecentCronSchedules fails: the error is returned and logged
RunCheckFailed ==
    /\ alerts' = [j \in Jobs \cup {"SCHEDULER"} |-> <<>>]
    /\ transitions' = EmptyOut
    /\ notifications' = EmptyOut
    /\ pollLog' = [j \in Jobs \cup {"SCHEDULER"} |->
                       IF j \in Jobs
                       THEN [pollLog[j] EXCEPT !.since = @ + 1,
                                               !.streak = [k \in Kinds |-> 0],
                                               !.pending = 0,
                                               !.sent = LogSent(pollLog[j], notifications[j]),
                                               !.owed = LogOwed(pollLog[j], notifications[j])]
                       ELSE [NewSchedulerLog EXCEPT !.before = schedulerState]]
    /\ call' = Record([fetchErr |-> TRUE, rows |-> <<>>, sendOk |-> TRUE,
                       recent |-> [err |-> TRUE, count |-> 0],
                       upcoming |-> [err |-> TRUE, count |-> 0]])
    /\ UNCHANGED <<jobStates, schedulerState, alertLog, transLog>>

\* runCheck's alerts: Analyze's, then the scheduler's alert appended
AlertList(an, sh) ==
    [j \in Jobs \cup {"SCHEDULER"} |-> IF j \in Jobs THEN an.alerts[j] ELSE sh.alert]

\* "if s.slackClient != nil { transitions := s.analyzer.DetectStateTransitions(schedules)"
RunDetect(an, schedules) ==
    IF config.Slack.Enabled
    THEN DetectStateTransitions(config, an.states, schedules, now)
    ELSE [states |-> an.states, transitions |-> EmptyOut]

\* the loop over the transitions: [state, sent] for each job that has a state
RunHandle(dt, alertMap, sendOk) ==
    [j \in DOMAIN dt.states |->
        HandleFrom(config, dt.states[j], dt.transitions[j], alertMap[j], now, sendOk, 1)]

\* the values runCheck leaves: an is Analyze's result, sh CheckSchedulerHealth's,
\* dt DetectStateTransitions', hd the transition loop's
RunCheckValues(an, sh, dt, hd, schedules) ==
    [jobStates |-> [j \in DOMAIN dt.states |-> hd[j].state],
     schedulerState |-> sh.state,
     alerts |-> AlertList(an, sh),
     transitions |-> dt.transitions,
     notifications |-> [j \in Jobs |-> IF j \in DOMAIN dt.states THEN hd[j].sent ELSE <<>>],
     alertLog |-> [j \in Jobs |-> alertLog[j] \o
                      [i \in 1..Len(an.alerts[j]) |->
                          [at |-> now, Status |-> an.alerts[j][i].Status]]],
     transLog |-> [j \in Jobs |->
                      (IF j \in (DOMAIN jobStates) \ (DOMAIN an.states)
                       THEN Append(transLog[j], [to |-> "removed", at |-> now, dur |-> 0])
                       ELSE transLog[j]) \o
                      [i \in 1..Len(dt.transitions[j]) |->
                          [to  |-> dt.transitions[j][i].ToState,
                           at  |-> dt.transitions[j][i].Timestamp,
                           dur |-> dt.transitions[j][i].StuckDuration]]],
     pollLog |-> [j \in Jobs |-> LogPoll(pollLog[j], config, jobStates, schedules, j, now)]]

RunCheckDetected(an, sh, dt, schedules, sendOk) ==
    RunCheckValues(an, sh, dt, RunHandle(dt, AlertMap(AlertList(an, sh)), sendOk), schedules)

RunCheckAnalyzed(an, sh, schedules, sendOk) ==
    RunCheckDetected(an, sh, RunDetect(an, schedules), schedules, sendOk)

\* runCheck on the fetched rows: the values it leaves
RunCheckResult(schedules, recent, upcoming, sendOk) ==
    RunCheckAnalyzed(Analyze(config, jobStates, schedules, now),
                     CheckSchedulerHealth(config, schedulerState, recent, upcoming, now),
                     schedules, sendOk)

RunCheckRows(schedules, recent, upcoming, sendOk) ==
    \E r \in { RunCheckResult(schedules, recent, upcoming, sendOk) } :
       /\ jobStates' = r.jobStates
       /\ schedulerState' = r.schedulerState
       /\ alerts' = r.alerts
       /\ transitions' = r.transitions
       /\ notifications' = r.notifications
       /\ alertLog' = r.alertLog
       /\ transLog' = r.transLog
       /\ pollLog' = [j \in Jobs \cup {"SCHEDULER"} |->
                          IF j \in Jobs THEN r.pollLog[j]
                          ELSE LogScheduler(pollLog[j], schedulerState, recent, upcoming, now)]
       /\ call' = Record([fetchErr |-> FALSE, rows |-> schedules, sendOk |-> sendOk,
                          recent |-> recent, upcoming |-> upcoming])

RunCheck ==
    /\ pc = "check"
    /\ polls < env.polls
    /\ \E fetch \in FetchResults(env, config, now) :
          IF fetch.err
          THEN RunCheckFailed
          ELSE \E q \in env.scheduler :
               \E sendOk \in (IF env.sendErr THEN BOOLEAN ELSE {TRUE}) :
                  RunCheckRows(fetch.rows, q[1], q[2], sendOk)
    /\ polls' = polls + 1
    /\ pc' = "select"
    /\ UNCHANGED <<now, stopped, config, env, ret>>

Next ==
    \/ \E dt \in env.steps : Tick(dt)
    \/ RunCheck

Spec == Init /\ [][Next]_vars

----------------------------------------------------------------------------
(* Service.Stop and the end of Service.Start *)

\* "s.cancel()": from any goroutine, at any point of the loop
Stop ==
    /\ ~stopped
    /\ pc # "returned"
    /\ stopped' = TRUE
    /\ UNCHANGED <<now, pc, polls, config, env, jobStates, schedulerState, alerts, transitions,
                   notifications, alertLog, transLog, pollLog, call, ret>>

\* a select that has no case for ctx.Done()
ReturnMissing ==
    /\ FALSE
    /\ UNCHANGED vars

\* "case <-s.ctx.Done(): return nil"
Return ==
    /\ pc = "select"
    /\ stopped
    /\ pc' = "returned"
    /\ UNCHANGED <<now, stopped, polls, config, env, jobStates, schedulerState, alerts, transitions,
                   notifications, alertLog, transLog, pollLog, call, ret>>

\* "case <-ticker.C" once the polls of the run were made: the loop goes on, the
\* polls beyond the bound leave the data as it is
TickBeyond ==
    /\ pc = "select"
    /\ polls = env.polls
    /\ pc' = "check"
    /\ UNCHANGED <<now, stopped, polls, config, env, jobStates, schedulerState, alerts, transitions,
                   notifications, alertLog, transLog, pollLog, call, ret>>

RunCheckBeyond ==
    /\ pc = "check"
    /\ polls = env.polls
    /\ pc' = "select"
    /\ UNCHANGED <<now, stopped, polls, config, env, jobStates, schedulerState, alerts, transitions,
                   notifications, alertLog, transLog, pollLog, call, ret>>

LifecycleEnv ==
    [steps     |-> {3},
     scenario  |-> <<{{"missed"}}>>,
     polls     |-> MaxPolls,
     fetchErr  |-> TRUE,
     scheduler |-> { <<[err |-> FALSE, count |-> 1], [err |-> FALSE, count |-> 0]>> },
     sendErr   |-> FALSE,
     record    |-> FALSE]

InitLifecycle ==
    /\ now = 0
    /\ pc = "check"
    /\ polls = 0
    /\ stopped = FALSE
    /\ config \in { c \in Configs : c.CronGroups = <<>> }
    /\ env = LifecycleEnv
    /\ jobStates = << >>
    /\ schedulerState = NewSchedulerState
    /\ alerts = [j \in Jobs \cup {"SCHEDULER"} |-> <<>>]
    /\ transitions = EmptyOut
    /\ notifications = EmptyOut
    /\ alertLog = EmptyOut
    /\ transLog = EmptyOut
    /\ pollLog = NewPollLogs
    /\ call = <<>>
    /\ ret = <<>>

NextLifecycle ==
    \/ \E dt \in env.steps : Tick(dt)
    \/ RunCheck
    \/ TickBeyond
    \/ RunCheckBeyond
    \/ Stop
    \/ Return

\* runCheck returns: the step of RunCheck or RunCheckBeyond
PollEnds == pc = "check" /\ pc' = "select"

\* every poll terminates; the select, which picks at random among the ready
\* cases, cannot pass over the ready ctx.Done() forever
SpecLifecycle ==
    /\ InitLifecycle /\ [][NextLifecycle]_vars
    /\ WF_pc(PollEnds)
    /\ SF_vars(Return)

\* the polling loop against a database whose scheduler count queries may
\* fail or return 0 or 1, every batch showing the missed condition only
SchedulerPairs ==
    { <<[err |-> TRUE,  count |-> 0], [err |-> FALSE, count |-> 0]>>,
      <<[err |-> FALSE, count |-> 0], [err |-> TRUE,  count |-> 0]>>,
      <<[err |-> FALSE, count |-> 0], [err |-> FALSE, count |-> 0]>>,
      <<[err |-> FALSE, count |-> 1], [err |-> FALSE, count |-> 0]>>,
      <<[err |-> FALSE, count |-> 0], [err |-> FALSE, count |-> 1]>> }

SchedulerEnv ==
    [steps     |-> {2, 5},
     scenario  |-> <<{{"missed"}}>>,
     polls     |-> MaxPolls,
     fetchErr  |-> TRUE,
     scheduler |-> SchedulerPairs,
     sendErr   |-> FALSE,
     record    |-> TRUE]

SchedulerConfigs ==
    { [Detection  |-> [DetectionConfig EXCEPT !.ThresholdChecks = n],
       CronGroups |-> <<>>,
       Slack      |-> SlackConfig(TRUE)] : n \in 0..3 }

InitScheduler ==
    /\ now = 0
    /\ pc = "check"
    /\ polls = 0
    /\ stopped = FALSE
    /\ config \in SchedulerConfigs
    /\ env = SchedulerEnv
    /\ jobStates = << >>
    /\ schedulerState = NewSchedulerState
    /\ alerts = [j \in Jobs \cup {"SCHEDULER"} |-> <<>>]
    /\ transitions = EmptyOut
    /\ notifications = EmptyOut
    /\ alertLog = EmptyOut
    /\ transLog = EmptyOut
    /\ pollLog = NewPollLogs
    /\ call = <<>>
    /\ ret = <<>>

SpecScheduler == InitScheduler /\ [][Next]_vars

\* the polling loop against a database whose every batch shows one and the
\* same single stuck condition
InitSingle ==
    /\ now = 0
    /\ pc = "check"
    /\ polls = 0
    /\ stopped = FALSE
    /\ config \in Configs
    /\ env \in { SingleEnv(k) : k \in Kinds }
    /\ jobStates = << >>
    /\ schedulerState = NewSchedulerState
    /\ alerts = [j \in Jobs \cup {"SCHEDULER"} |-> <<>>]
    /\ transitions = EmptyOut
    /\ notifications = EmptyOut
    /\ alertLog = EmptyOut
    /\ transLog = EmptyOut
    /\ pollLog = NewPollLogs
    /\ call = <<>>
    /\ ret = <<>>

SpecSingle == InitSingle /\ [][Next]_vars

----------------------------------------------------------------------------
(* checkConsecutiveErrors applied on its own to every short list of records *)

ScanTemplates ==
    { [Status |-> "error",   Msg |-> TRUE],
      [Status |-> "error",   Msg |-> FALSE],
      [Status |-> "success", Msg |-> FALSE],
      [Status |-> "pending", Msg |-> FALSE] }

\* the i-th record carries the message "m<i>" when it has one
ScanSchedules(q) ==
    [i \in 1..Len(q) |->
        [JobCode    |-> "A",
         Status     |-> q[i].Status,
         Messages   |-> IF q[i].Msg THEN <<"m" \o ToString(i)>> ELSE <<>>,
         ExecutedAt |-> <<>>]]

InitErrors ==
    /\ now = 0
    /\ pc = "call"
    /\ polls = 0
    /\ stopped = FALSE
    /\ config \in Configs
    /\ env = AnyEnv
    /\ jobStates = << >>
    /\ schedulerState = NewSchedulerState
    /\ alerts = [j \in Jobs \cup {"SCHEDULER"} |-> <<>>]
    /\ transitions = EmptyOut
    /\ notifications = EmptyOut
    /\ alertLog = EmptyOut
    /\ transLog = EmptyOut
    /\ pollLog = NewPollLogs
    /\ \E q \in SeqsUpTo(ScanTemplates, MaxScanLen), n \in 1..3 :
          call = [schedules |-> ScanSchedules(q),
                  cfg       |-> [GetDetectionConfig(config, "A") EXCEPT !.ConsecutiveErrors = n],
                  state     |-> NewJobState("A")]
    /\ ret = <<>>

ApplyCheckConsecutiveErrors ==
    /\ pc = "call"
    /\ ret' = checkConsecutiveErrors(call.schedules, call.cfg, call.state, now)
    /\ pc' = "done"
    /\ UNCHANGED <<now, stopped, polls, config, env, jobStates, schedulerState, alerts,
                   transitions, notifications, alertLog, transLog, pollLog, call>>

NextErrors == ApplyCheckConsecutiveErrors

SpecErrors == InitErrors /\ [][NextErrors]_vars


----------------------------------------------------------------------------
(* Analyzer.GetJobStates and the caller that holds the returned map.  A    *)
(* map is the analyzer's own (fresh = FALSE) or a new one; a *JobState in  *)
(* it points at the analyzer's own object of that job (shared) or at an    *)
(* object of its own, whose value is val.                                  *)

MaxEdits == 2

\* GetJobStates that hands out the analyzer's map: "return a.jobStates"
GetJobStatesShared(states) ==
    [fresh |-> FALSE,
     at    |-> [j \in DOMAIN states |-> [shared |-> TRUE, val |-> states[j]]]]

\* "states := make(map[string]*JobState)
\*  for k, v := range a.jobStates { stateCopy := *v; states[k] = &stateCopy }"
GetJobStates(states) ==
    [fresh |-> TRUE,
     at    |-> [j \in DOMAIN states |-> [shared |-> FALSE, val |-> states[j]]]]

\* what a reader of the returned map sees
SnapshotView ==
    IF ~ret.states.fresh
    THEN jobStates
    ELSE [j \in DOMAIN ret.states.at |->
            IF ret.states.at[j].shared /\ j \in DOMAIN jobStates
            THEN jobStates[j]
            ELSE ret.states.at[j].val]

\* "states := s.analyzer.GetJobStates()", from any goroutine at any time
CallGetJobStates ==
    /\ pc # "returned"
    /\ ret' = [states |-> GetJobStates(jobStates), edits |-> 0]
    /\ UNCHANGED <<jobStates, now, pc, stopped, polls, config, env, schedulerState, alerts, transitions,
                   notifications, alertLog, transLog, pollLog, call>>

\* the caller writes a field through a pointer of the returned map
MutateSnapshot(j) ==
    /\ ret # <<>>
    /\ ret.edits < MaxEdits
    /\ j \in DOMAIN SnapshotView
    /\ IF (~ret.states.fresh \/ ret.states.at[j].shared) /\ j \in DOMAIN jobStates
       THEN /\ jobStates' = [jobStates EXCEPT ![j].ConsecutiveStuck = @ + 1]
            /\ ret' = [ret EXCEPT !.edits = @ + 1]
       ELSE /\ ret' = [ret EXCEPT !.states.at[j].val.ConsecutiveStuck = @ + 1,
                                  !.edits = @ + 1]
            /\ UNCHANGED jobStates
    /\ UNCHANGED <<now, pc, stopped, polls, config, env, schedulerState, alerts, transitions,
                   notifications, alertLog, transLog, pollLog, call>>

\* the caller deletes a key of the returned map
DeleteFromSnapshot(j) ==
    /\ ret # <<>>
    /\ ret.edits < MaxEdits
    /\ j \in DOMAIN SnapshotView
    /\ IF ~ret.states.fresh
       THEN /\ jobStates' = [k \in DOMAIN jobStates \ {j} |-> jobStates[k]]
            /\ ret' = [ret EXCEPT !.edits = @ + 1]
       ELSE /\ ret' = [ret EXCEPT
                         !.states.at = [k \in DOMAIN ret.states.at \ {j} |-> ret.states.at[k]],
                         !.edits = @ + 1]
            /\ UNCHANGED jobStates
    /\ UNCHANGED <<now, pc, stopped, polls, config, env, schedulerState, alerts, transitions,
                   notifications, alertLog, transLog, pollLog, call>>

SnapshotEnv(kind) ==
    [steps     |-> {3},
     scenario  |-> <<{{kind}}>>,
     polls     |-> MaxPolls,
     fetchErr  |-> FALSE,
     scheduler |-> { <<[err |-> FALSE, count |-> 1], [err |-> FALSE, count |-> 0]>> },
     sendErr   |-> FALSE,
     record    |-> FALSE]

InitSnapshot ==
    /\ now = 0
    /\ pc = "check"
    /\ polls = 0
    /\ stopped = FALSE
    /\ config \in { c \in Configs : c.CronGroups = <<>> }
    /\ env \in { SnapshotEnv(k) : k \in Kinds }
    /\ jobStates = << >>
    /\ schedulerState = NewSchedulerState
    /\ alerts = [j \in Jobs \cup {"SCHEDULER"} |-> <<>>]
    /\ transitions = EmptyOut
    /\ notifications = EmptyOut
    /\ alertLog = EmptyOut
    /\ transLog = EmptyOut
    /\ pollLog = NewPollLogs
    /\ call = <<>>
    /\ ret = <<>>

NextSnapshot ==
    \/ \E dt \in env.steps : Tick(dt)
    \/ RunCheck
    \/ CallGetJobStates
    \/ \E j \in Jobs : MutateSnapshot(j)
    \/ \E j \in Jobs : DeleteFromSnapshot(j)

SpecSnapshot == InitSnapshot /\ [][NextSnapshot]_vars

----------------------------------------------------------------------------
(* The polling loop with Slack enabled, against a job that is healthy or   *)
(* shows pending accumulation, at debounce depth 1.  The cooldowns are     *)
(* shorter than a tick, between two ticks, or longer than the 24 hours     *)
(* after which a job state is removed.                                     *)

SlackEnv ==
    [steps     |-> {1, 3, 1441},
     scenario  |-> <<{{}, {"pending"}}>>,
     polls     |-> MaxSlackPolls,
     fetchErr  |-> FALSE,
     scheduler |-> { <<[err |-> FALSE, count |-> 1], [err |-> FALSE, count |-> 0]>> },
     sendErr   |-> TRUE,
     record    |-> FALSE]

SlackConfigs ==
    { [Detection  |-> DetectionConfig,
       CronGroups |-> <<CronGroupConfig("A", <<1>>)>>,
       Slack      |-> [SlackConfig(TRUE) EXCEPT !.AlertCooldown = a,
                                                !.RecoveryCooldown = r,
                                                !.SendRecovery = sr]] :
        a \in {3, 7, 1500}, r \in {2, 4}, sr \in BOOLEAN }

InitSlack ==
    /\ now = 0
    /\ pc = "check"
    /\ polls = 0
    /\ stopped = FALSE
    /\ config \in SlackConfigs
    /\ env = SlackEnv
    /\ jobStates = << >>
    /\ schedulerState = NewSchedulerState
    /\ alerts = [j \in Jobs \cup {"SCHEDULER"} |-> <<>>]
    /\ transitions = EmptyOut
    /\ notifications = EmptyOut
    /\ alertLog = EmptyOut
    /\ transLog = EmptyOut
    /\ pollLog = NewPollLogs
    /\ call = <<>>
    /\ ret = <<>>

SpecSlack == InitSlack /\ [][Next]_vars

----------------------------------------------------------------------------
(* The polling loop with Slack enabled, against a job that is healthy or   *)
(* shows pending accumulation, with the rows of each poll kept             *)

TrackerEnv ==
    [steps     |-> {3},
     scenario  |-> <<{{}, {"pending"}}>>,
     polls     |-> MaxPolls,
     fetchErr  |-> FALSE,
     scheduler |-> { <<[err |-> FALSE, count |-> 1], [err |-> FALSE, count |-> 0]>> },
     sendErr   |-> FALSE,
     record    |-> TRUE]

InitTracker ==
    /\ now = 0
    /\ pc = "check"
    /\ polls = 0
    /\ stopped = FALSE
    /\ config \in { c \in Configs : c.Slack.Enabled }
    /\ env = TrackerEnv
    /\ jobStates = << >>
    /\ schedulerState = NewSchedulerState
    /\ alerts = [j \in Jobs \cup {"SCHEDULER"} |-> <<>>]
    /\ transitions = EmptyOut
    /\ notifications = EmptyOut
    /\ alertLog = EmptyOut
    /\ transLog = EmptyOut
    /\ pollLog = NewPollLogs
    /\ call = <<>>
    /\ ret = <<>>

SpecTracker == InitTracker /\ [][Next]_vars

----------------------------------------------------------------------------
(* The polling loop against a database whose every batch shows exactly one *)
(* stuck condition, any of the four, at debounce depth 2                   *)

AlternatingEnv ==
    [steps     |-> {3},
     scenario  |-> <<{ {k} : k \in Kinds }>>,
     polls     |-> MaxPolls,
     fetchErr  |-> FALSE,
     scheduler |-> { <<[err |-> FALSE, count |-> 1], [err |-> FALSE, count |-> 0]>> },
     sendErr   |-> FALSE,
     record    |-> FALSE]

InitAlternating ==
    /\ now = 0
    /\ pc = "check"
    /\ polls = 0
    /\ stopped = FALSE
    /\ config \in { c \in Configs : c.CronGroups = <<>> }
    /\ env = AlternatingEnv
    /\ jobStates = << >>
    /\ schedulerState = NewSchedulerState
    /\ alerts = [j \in Jobs \cup {"SCHEDULER"} |-> <<>>]
    /\ transitions = EmptyOut
    /\ notifications = EmptyOut
    /\ alertLog = EmptyOut
    /\ transLog = EmptyOut
    /\ pollLog = NewPollLogs
    /\ call = <<>>
    /\ ret = <<>>

SpecAlternating == InitAlternating /\ [][Next]_vars

----------------------------------------------------------------------------
(* The polling loop against any batches, polled every 3 minutes at         *)
(* debounce depth 1, with the rows of each poll kept                       *)

RowsEnv ==
    [steps     |-> {3},
     scenario  |-> <<>>,
     polls     |-> MaxPolls,
     fetchErr  |-> FALSE,
     scheduler |-> { <<[err |-> FALSE, count |-> 1], [err |-> FALSE, count |-> 0]>> },
     sendErr   |-> FALSE,
     record    |-> TRUE]

InitRows ==
    /\ now = 0
    /\ pc = "check"
    /\ polls = 0
    /\ stopped = FALSE
    /\ config \in { c \in Configs : c.CronGroups = <<CronGroupConfig("A", <<1>>)>> }
    /\ env = RowsEnv
    /\ jobStates = << >>
    /\ schedulerState = NewSchedulerState
    /\ alerts = [j \in Jobs \cup {"SCHEDULER"} |-> <<>>]
    /\ transitions = EmptyOut
    /\ notifications = EmptyOut
    /\ alertLog = EmptyOut
    /\ transLog = EmptyOut
    /\ pollLog = NewPollLogs
    /\ call = <<>>
    /\ ret = <<>>

SpecRows == InitRows /\ [][Next]_vars

----------------------------------------------------------------------------
(* checkLongRunning applied to any batch of one job, on a job state with   *)
(* any counter                                                             *)

InitLongRunning ==
    /\ now = 0
    /\ pc = "call"
    /\ polls = 0
    /\ stopped = FALSE
    /\ config \in Configs
    /\ env = AnyEnv
    /\ jobStates = << >>
    /\ schedulerState = NewSchedulerState
    /\ alerts = [j \in Jobs \cup {"SCHEDULER"} |-> <<>>]
    /\ transitions = EmptyOut
    /\ notifications = EmptyOut
    /\ alertLog = EmptyOut
    /\ transLog = EmptyOut
    /\ pollLog = NewPollLogs
    /\ \E b \in Batches(now), n \in 0..2 :
          call = [schedules |-> b,
                  cfg       |-> GetDetectionConfig(config, "A"),
                  state     |-> [NewJobState("A") EXCEPT !.ConsecutiveStuck = n]]
    /\ ret = <<>>

ApplyCheckLongRunning ==
    /\ pc = "call"
    /\ ret' = checkLongRunning(call.schedules, call.cfg, call.state, now)
    /\ pc' = "done"
    /\ UNCHANGED <<now, stopped, polls, config, env, jobStates, schedulerState, alerts,
                   transitions, notifications, alertLog, transLog, pollLog, call>>

NextLongRunning == ApplyCheckLongRunning

SpecLongRunning == InitLongRunning /\ [][NextLongRunning]_vars

----------------------------------------------------------------------------
(* The polling loop with gaps of 24 hours and of a minute more between     *)
(* polls, against a job that is absent, healthy or shows pending           *)
(* accumulation, with the rows of each poll kept                           *)

CleanupEnv ==
    [steps     |-> {3, CleanupMinutes, CleanupMinutes + 1},
     scenario  |-> <<{{}, {"pending"}}>>,
     polls     |-> MaxPolls,
     fetchErr  |-> FALSE,
     scheduler |-> { <<[err |-> FALSE, count |-> 1], [err |-> FALSE, count |-> 0]>> },
     sendErr   |-> FALSE,
     record    |-> TRUE]

InitCleanup ==
    /\ now = 0
    /\ pc = "check"
    /\ polls = 0
    /\ stopped = FALSE
    /\ config \in { c \in Configs : c.CronGroups = <<CronGroupConfig("A", <<1>>)>> }
    /\ env = CleanupEnv
    /\ jobStates = << >>
    /\ schedulerState = NewSchedulerState
    /\ alerts = [j \in Jobs \cup {"SCHEDULER"} |-> <<>>]
    /\ transitions = EmptyOut
    /\ notifications = EmptyOut
    /\ alertLog = EmptyOut
    /\ transLog = EmptyOut
    /\ pollLog = NewPollLogs
    /\ call = <<>>
    /\ ret = <<>>

SpecCleanup == InitCleanup /\ [][Next]_vars

----------------------------------------------------------------------------
(* The analyzer's sync.RWMutex.  The poll is taken apart at the points     *)
(* where runCheck takes and gives back a.mu; beside it runs a diagnostic   *)
(* goroutine that calls GetJobStates.  In this specification pc is the     *)
(* place of the polling goroutine inside runCheck, call holds the fetched  *)
(* rows and ret is                                                         *)
(*   mu:       the mutex: whether a writer holds it, and the readers       *)
(*   reader:   the place of the diagnostic goroutine                       *)
(*   snapshot: <<>> or the job states GetJobStates copied last             *)

NewMutex == [writer |-> FALSE, readers |-> {}]

\* "a.mu.Lock()"
Lock(mu) == [mu EXCEPT !.writer = TRUE]

CanLock(mu) == ~mu.writer /\ mu.readers = {}

\* "defer a.mu.Unlock()"
Unlock(mu) == [mu EXCEPT !.writer = FALSE]

\* "a.mu.RLock()"
RLock(mu, who) == [mu EXCEPT !.readers = @ \cup {who}]

CanRLock(mu) == ~mu.writer

\* "defer a.mu.RUnlock()"
RUnlock(mu, who) == [mu EXCEPT !.readers = @ \ {who}]

\* "schedules, err := s.db.GetRecentCronSchedules(...)", and what the two
\* count queries and the Slack client will answer later in this poll
FetchSchedules ==
    /\ pc = "check"
    /\ polls < env.polls
    /\ \E fetch \in FetchResults(env, config, now), q \in env.scheduler :
          /\ call' = [fetchErr |-> fetch.err, rows |-> fetch.rows, sendOk |-> TRUE,
                      recent |-> q[1], upcoming |-> q[2]]
          /\ pc' = IF fetch.err THEN "select" ELSE "to_analyze"
          /\ polls' = IF fetch.err THEN polls + 1 ELSE polls
    /\ alerts' = [j \in Jobs \cup {"SCHEDULER"} |-> <<>>]
    /\ transitions' = EmptyOut
    /\ notifications' = EmptyOut
    /\ UNCHANGED <<now, stopped, config, env, jobStates, schedulerState, alertLog,
                   transLog, pollLog, ret>>

\* "a.mu.Lock()" at the head of Analyze, CheckSchedulerHealth and
\* DetectStateTransitions
LockAnalyzer ==
    /\ pc \in {"to_analyze", "to_scheduler", "to_detect"}
    /\ CanLock(ret.mu)
    /\ ret' = [ret EXCEPT !.mu = Lock(@)]
    /\ pc' = CASE pc = "to_analyze"   -> "in_analyze"
               [] pc = "to_scheduler" -> "in_scheduler"
               [] pc = "to_detect"    -> "in_detect"
    /\ UNCHANGED <<now, stopped, polls, config, env, jobStates, schedulerState, alerts,
                   transitions, notifications, alertLog, transLog, pollLog, call>>

\* the body of Analyze and its deferred Unlock
AnalyzeLocked ==
    /\ pc = "in_analyze"
    /\ \E an \in { Analyze(config, jobStates, call.rows, now) } :
          /\ jobStates' = an.states
          /\ alerts' = [j \in Jobs \cup {"SCHEDULER"} |-> IF j \in Jobs THEN an.alerts[j] ELSE <<>>]
    /\ ret' = [ret EXCEPT !.mu = Unlock(@)]
    /\ pc' = "to_scheduler"
    /\ UNCHANGED <<now, stopped, polls, config, env, schedulerState, transitions,
                   notifications, alertLog, transLog, pollLog, call>>

\* the body of CheckSchedulerHealth and its deferred Unlock; without Slack
\* the poll ends here
SchedulerLocked ==
    /\ pc = "in_scheduler"
    /\ \E sh \in { CheckSchedulerHealth(config, schedulerState, call.recent, call.upcoming, now) } :
          /\ schedulerState' = sh.state
          /\ alerts' = [alerts EXCEPT !["SCHEDULER"] = sh.alert]
    /\ ret' = [ret EXCEPT !.mu = Unlock(@)]
    /\ pc' = IF config.Slack.Enabled THEN "to_detect" ELSE "select"
    /\ polls' = IF config.Slack.Enabled THEN polls ELSE polls + 1
    /\ UNCHANGED <<now, stopped, config, env, jobStates, transitions, notifications,
                   alertLog, transLog, pollLog, call>>

\* the body of DetectStateTransitions and its deferred Unlock
DetectLocked ==
    /\ pc = "in_detect"
    /\ \E dt \in { DetectStateTransitions(config, jobStates, call.rows, now) } :
          /\ jobStates' = dt.states
          /\ transitions' = dt.transitions
          /\ pc' = IF \E j \in Jobs : dt.transitions[j] # <<>> THEN "to_handle" ELSE "select"
          /\ polls' = IF \E j \in Jobs : dt.transitions[j] # <<>> THEN polls ELSE polls + 1
    /\ ret' = [ret EXCEPT !.mu = Unlock(@)]
    /\ UNCHANGED <<now, stopped, config, env, schedulerState, alerts, notifications,
                   alertLog, transLog, pollLog, call>>

\* "state := s.analyzer.GetCronState(transition.CronCode)": the read lock is
\* taken and given back around the map lookup, the pointer is returned
GetCronState ==
    /\ pc = "to_handle"
    /\ CanRLock(ret.mu)
    /\ pc' = "cooldown"
    /\ UNCHANGED <<now, stopped, polls, config, env, jobStates, schedulerState, alerts,
                   transitions, notifications, alertLog, transLog, pollLog, call, ret>>

\* handleStateTransition from its cooldown check to SendAlert, on the
\* pointer GetCronState returned; no lock is held
CheckCooldownAndSend ==
    /\ pc = "cooldown"
    /\ \E j \in { k \in Jobs : transitions[k] # <<>> } :
       \E sendOk \in (IF env.sendErr THEN BOOLEAN ELSE {TRUE}) :
       \E r \in { handleStateTransition(config, jobStates[j], transitions[j][1], now,
                                        AlertMap(alerts)[j], sendOk) } :
          /\ notifications' = [notifications EXCEPT ![j] = r.sent]
          /\ pc' = IF r.sent # <<>> THEN "update" ELSE "select"
          /\ polls' = IF r.sent # <<>> THEN polls ELSE polls + 1
    /\ UNCHANGED <<now, stopped, config, env, jobStates, schedulerState, alerts,
                   transitions, alertLog, transLog, pollLog, call, ret>>

\* "state.LastSlackAlert = now", on the same pointer; no lock is held
UpdateLastSlackAlert ==
    /\ pc = "update"
    /\ jobStates' = [j \in DOMAIN jobStates |->
                        IF notifications[j] # <<>>
                        THEN [jobStates[j] EXCEPT !.LastSlackAlert = now]
                        ELSE jobStates[j]]
    /\ pc' = "select"
    /\ polls' = polls + 1
    /\ UNCHANGED <<now, stopped, config, env, schedulerState, alerts, transitions,
                   notifications, alertLog, transLog, pollLog, call, ret>>

\* the diagnostic goroutine enters GetJobStates: "a.mu.RLock()"
ReaderRLock ==
    /\ ret.reader = "idle"
    /\ CanRLock(ret.mu)
    /\ ret' = [ret EXCEPT !.mu = RLock(@, "reader"), !.reader = "copying"]
    /\ UNCHANGED <<now, pc, stopped, polls, config, env, jobStates, schedulerState,
                   alerts, transitions, notifications, alertLog, transLog, pollLog, call>>

\* the job states a copy made now can hold: those of the map, and for a
\* job whose LastSlackAlert the polling goroutine is writing at this moment
\* also the value being written
CopiesOf(states) ==
    { GetJobStates(states) } \cup
    (IF pc = "update"
     THEN { GetJobStates([j \in DOMAIN states |->
                             IF notifications[j] # <<>>
                             THEN [states[j] EXCEPT !.LastSlackAlert = now]
                             ELSE states[j]]) }
     ELSE {})

\* the copy loop of GetJobStates and its deferred RUnlock
ReaderCopy ==
    /\ ret.reader = "copying"
    /\ \E copy \in CopiesOf(jobStates) :
          ret' = [ret EXCEPT !.mu = RUnlock(@, "reader"), !.reader = "idle", !.snapshot = copy]
    /\ UNCHANGED <<now, pc, stopped, polls, config, env, jobStates, schedulerState,
                   alerts, transitions, notifications, alertLog, transLog, pollLog, call>>

LockingEnv ==
    [steps     |-> {3},
     scenario  |-> <<{{}, {"pending"}}>>,
     polls     |-> MaxPolls,
     fetchErr  |-> TRUE,
     scheduler |-> { <<[err |-> FALSE, count |-> 1], [err |-> FALSE, count |-> 0]>> },
     sendErr   |-> TRUE,
     record    |-> TRUE]

InitLocking ==
    /\ now = 0
    /\ pc = "check"
    /\ polls = 0
    /\ stopped = FALSE
    /\ config \in { c \in Configs : c.CronGroups = <<CronGroupConfig("A", <<1>>)>> }
    /\ env = LockingEnv
    /\ jobStates = << >>
    /\ schedulerState = NewSchedulerState
    /\ alerts = [j \in Jobs \cup {"SCHEDULER"} |-> <<>>]
    /\ transitions = EmptyOut
    /\ notifications = EmptyOut
    /\ alertLog = EmptyOut
    /\ transLog = EmptyOut
    /\ pollLog = NewPollLogs
    /\ call = <<>>
    /\ ret = [mu |-> NewMutex, reader |-> "idle", snapshot |-> <<>>]

NextLocking ==
    \/ \E dt \in env.steps : Tick(dt)
    \/ FetchSchedules
    \/ LockAnalyzer
    \/ AnalyzeLocked
    \/ SchedulerLocked
    \/ DetectLocked
    \/ GetCronState
    \/ CheckCooldownAndSend
    \/ UpdateLastSlackAlert
    \/ ReaderRLock
    \/ ReaderCopy

SpecLocking == InitLocking /\ [][NextLocking]_vars

----------------------------------------------------------------------------
(* runMonitor: the main goroutine starts Service.Start in a goroutine of   *)
(* its own and waits for a signal.  pc is the place of the Start goroutine *)
(* (the places of a poll are those of the section above); ret holds, next  *)
(* to the analyzer's mutex,                                                *)
(*   main:    the place of the main goroutine in runMonitor                *)
(*   midPoll: <<>>, or <<b>> once a signal was received, b telling whether *)
(*            a runCheck was in progress at that moment                    *)
(*   db, log, pidfile: the resources runMonitor releases when it returns   *)

\* a runCheck is in progress
PollInProgress == pc \notin {"select", "returned"}

\* "case sig := <-sigChan"
ReceiveSignal ==
    /\ ret.main = "select"
    /\ ret' = [ret EXCEPT !.main = "stop", !.midPoll = <<PollInProgress>>]
    /\ UNCHANGED <<now, pc, stopped, polls, config, env, jobStates, schedulerState,
                   alerts, transitions, notifications, alertLog, transLog, pollLog, call>>

\* "svc.Stop()": cancels the context and returns at once
StopService ==
    /\ ret.main = "stop"
    /\ stopped' = TRUE
    /\ ret' = [ret EXCEPT !.main = "close_db"]
    /\ UNCHANGED <<now, pc, polls, config, env, jobStates, schedulerState, alerts,
                   transitions, notifications, alertLog, transLog, pollLog, call>>

\* runMonitor returns; the first deferred call: "defer db.Close()"
CloseDatabase ==
    /\ ret.main = "close_db"
    /\ ret' = [ret EXCEPT !.main = "remove_pid", !.db = "closed"]
    /\ UNCHANGED <<now, pc, stopped, polls, config, env, jobStates, schedulerState,
                   alerts, transitions, notifications, alertLog, transLog, pollLog, call>>

\* "defer pid.Remove()"
RemovePIDFile ==
    /\ ret.main = "remove_pid"
    /\ ret' = [ret EXCEPT !.main = "close_log", !.pidfile = "removed"]
    /\ UNCHANGED <<now, pc, stopped, polls, config, env, jobStates, schedulerState,
                   alerts, transitions, notifications, alertLog, transLog, pollLog, call>>

\* "defer log.Close()", after which main returns and the process, with the
\* Start goroutine in it, ends
CloseLog ==
    /\ ret.main = "close_log"
    /\ ret' = [ret EXCEPT !.main = "exited", !.log = "closed"]
    /\ UNCHANGED <<now, pc, stopped, polls, config, env, jobStates, schedulerState,
                   alerts, transitions, notifications, alertLog, transLog, pollLog, call>>

\* the Start goroutine runs as long as the process does
ProcessAlive == ret.main # "exited"

\* "case <-s.ctx.Done(): return nil", and "errChan <- svc.Start()"
StartReturns ==
    /\ pc = "select"
    /\ stopped
    /\ pc' = "returned"
    /\ UNCHANGED <<now, stopped, polls, config, env, jobStates, schedulerState, alerts,
                   transitions, notifications, alertLog, transLog, pollLog, call, ret>>

ShutdownEnv ==
    [steps     |-> {3},
     scenario  |-> <<{{"pending"}}>>,
     polls     |-> MaxPolls,
     fetchErr  |-> TRUE,
     scheduler |-> { <<[err |-> FALSE, count |-> 1], [err |-> FALSE, count |-> 0]>> },
     sendErr   |-> FALSE,
     record    |-> TRUE]

InitShutdown ==
    /\ now = 0
    /\ pc = "check"
    /\ polls = 0
    /\ stopped = FALSE
    /\ config \in { c \in Configs : c.CronGroups = <<CronGroupConfig("A", <<1>>)>> }
    /\ env = ShutdownEnv
    /\ jobStates = << >>
    /\ schedulerState = NewSchedulerState
    /\ alerts = [j \in Jobs \cup {"SCHEDULER"} |-> <<>>]
    /\ transitions = EmptyOut
    /\ notifications = EmptyOut
    /\ alertLog = EmptyOut
    /\ transLog = EmptyOut
    /\ pollLog = NewPollLogs
    /\ call = <<>>
    /\ ret = [mu |-> NewMutex, reader |-> "idle", snapshot |-> <<>>,
              main |-> "select", midPoll |-> <<>>,
              db |-> "open", log |-> "open", pidfile |-> "present"]

NextShutdown ==
    \/ ReceiveSignal
    \/ StopService
    \/ CloseDatabase
    \/ RemovePIDFile
    \/ CloseLog
    \/ ProcessAlive /\ StartReturns
    \/ ProcessAlive /\ \E dt \in env.steps : Tick(dt)
    \/ ProcessAlive /\ FetchSchedules
    \/ ProcessAlive /\ LockAnalyzer
    \/ ProcessAlive /\ AnalyzeLocked
    \/ ProcessAlive /\ SchedulerLocked
    \/ ProcessAlive /\ DetectLocked
    \/ ProcessAlive /\ GetCronState
    \/ ProcessAlive /\ CheckCooldownAndSend
    \/ ProcessAlive /\ UpdateLastSlackAlert

SpecShutdown == InitShutdown /\ [][NextShutdown]_vars

----------------------------------------------------------------------------
(* pidfile.PIDFile.  Instances of the monitor are started on one machine;  *)
(* each runs pid.Create() and, holding the PID file, runs until it is      *)
(* stopped or killed.  In this specification call is what the instances    *)
(* are started with and ret is the machine:                                *)
(*   call.primary[i]:  the path instance i passes to pidfile.New           *)
(*   call.writable[i]: whether instance i may write that path              *)
(*   ret.fs:   the files, path -> <<>> (no file) or <<content>>            *)
(*   ret.inst: instance -> [pc, path], path the field PIDFile.path         *)
(* A PID is the number of the instance.                                    *)

Instances == {1, 2}

\* the config directory's path, and "/tmp/go-magento-cron-monitor.pid"
Paths == {"conf", "tmp"}

\* a file content that strconv.Atoi rejects
Garbage == 0

\* "GetDefaultPath("")" on a machine whose /var/run is not writable
DefaultPath == "tmp"

\* "filepath.Join("/tmp", filepath.Base(p.path))"
FallbackPath(path) == "tmp"

\* "isProcessRunning(pid)"
isProcessRunning(inst, pid) ==
    pid \in Instances /\ inst[pid].pc \notin {"created", "failed", "exited"}

\* the process is started: runMonitor reaches "pid := pidfile.New(pidPath)"
StartInstance(i) ==
    /\ ret.inst[i].pc = "created"
    /\ ret' = [ret EXCEPT !.inst[i].pc = "checkExisting"]
    /\ UNCHANGED <<now, pc, stopped, polls, config, env, jobStates, schedulerState,
                   alerts, transitions, notifications, alertLog, transLog, pollLog, call>>

\* checkExisting up to its decision: "os.ReadFile(p.path)", Atoi and
\* isProcessRunning
checkExisting(i) ==
    /\ ret.inst[i].pc = "checkExisting"
    /\ \E data \in { ret.fs[ret.inst[i].path] } :
          ret' = [ret EXCEPT !.inst[i].pc =
                     CASE data = <<>>                          -> "write"
                       [] data[1] \notin Instances             -> "remove"
                       [] isProcessRunning(ret.inst, data[1])  -> "failed"
                       [] OTHER                                -> "remove"]
    /\ UNCHANGED <<now, pc, stopped, polls, config, env, jobStates, schedulerState,
                   alerts, transitions, notifications, alertLog, transLog, pollLog, call>>

\* "os.Remove(p.path)" of an invalid or stale PID file
RemoveStale(i) ==
    /\ ret.inst[i].pc = "remove"
    /\ ret' = [ret EXCEPT !.fs[ret.inst[i].path] = <<>>, !.inst[i].pc = "write"]
    /\ UNCHANGED <<now, pc, stopped, polls, config, env, jobStates, schedulerState,
                   alerts, transitions, notifications, alertLog, transLog, pollLog, call>>

\* the first "p.write()" of Create, and the choice of the fallback location
\* when it fails
WritePIDFile(i) ==
    /\ ret.inst[i].pc = "write"
    /\ ret' = IF call.writable[i]
              THEN [ret EXCEPT !.fs[ret.inst[i].path] = <<i>>, !.inst[i].pc = "holding"]
              ELSE IF ret.inst[i].path # DefaultPath
              THEN [ret EXCEPT !.inst[i].path = FallbackPath(@), !.inst[i].pc = "fallback"]
              ELSE [ret EXCEPT !.inst[i].pc = "failed"]
    /\ UNCHANGED <<now, pc, stopped, polls, config, env, jobStates, schedulerState,
                   alerts, transitions, notifications, alertLog, transLog, pollLog, call>>

\* the second "p.write()", at the fallback location
WriteFallback(i) ==
    /\ ret.inst[i].pc = "fallback"
    /\ ret' = [ret EXCEPT !.fs[ret.inst[i].path] = <<i>>, !.inst[i].pc = "holding"]
    /\ UNCHANGED <<now, pc, stopped, polls, config, env, jobStates, schedulerState,
                   alerts, transitions, notifications, alertLog, transLog, pollLog, call>>

\* runMonitor returns: "defer pid.Remove()"
RemoveOnExit(i) ==
    /\ ret.inst[i].pc = "holding"
    /\ ret' = [ret EXCEPT !.fs[ret.inst[i].path] = <<>>, !.inst[i].pc = "exited"]
    /\ UNCHANGED <<now, pc, stopped, polls, config, env, jobStates, schedulerState,
                   alerts, transitions, notifications, alertLog, transLog, pollLog, call>>

\* the process is killed: no deferred call runs
Killed(i) ==
    /\ ret.inst[i].pc = "holding"
    /\ ret' = [ret EXCEPT !.inst[i].pc = "exited"]
    /\ UNCHANGED <<now, pc, stopped, polls, config, env, jobStates, schedulerState,
                   alerts, transitions, notifications, alertLog, transLog, pollLog, call>>

InitPIDFile ==
    /\ now = 0
    /\ pc = "call"
    /\ polls = 0
    /\ stopped = FALSE
    /\ config \in { c \in Configs : c.CronGroups = <<>> /\ ~c.Slack.Enabled }
    /\ env = AnyEnv
    /\ jobStates = << >>
    /\ schedulerState = NewSchedulerState
    /\ alerts = [j \in Jobs \cup {"SCHEDULER"} |-> <<>>]
    /\ transitions = EmptyOut
    /\ notifications = EmptyOut
    /\ alertLog = EmptyOut
    /\ transLog = EmptyOut
    /\ pollLog = NewPollLogs
    /\ \E primary \in [Instances -> Paths], w \in [Instances -> BOOLEAN] :
          /\ \A i \in Instances : primary[i] = "tmp" => w[i]
          /\ call = [primary |-> primary, writable |-> w]
          /\ \E old \in {<<>>, <<Garbage>>} :
                ret = [fs   |-> [p \in Paths |-> IF p = "conf" THEN old ELSE <<>>],
                       inst |-> [i \in Instances |-> [pc |-> "created", path |-> primary[i]]]]

NextPIDFile ==
    \E i \in Instances :
       \/ StartInstance(i)
       \/ checkExisting(i)
       \/ RemoveStale(i)
       \/ WritePIDFile(i)
       \/ WriteFallback(i)
       \/ RemoveOnExit(i)
       \/ Killed(i)

SpecPIDFile == InitPIDFile /\ [][NextPIDFile]_vars

----------------------------------------------------------------------------
(* config.Load and Config.GetDetectionConfig applied on their own: config  *)
(* is first the Config as viper unmarshalled it, then the one Load         *)
(* returns; ret is the DetectionConfig GetDetectionConfig returns for      *)
(* call.groupName; Analyze is then applied to a batch of call.groupName.   *)

OverrideFields ==
    {"MaxRunningTime", "MaxPendingCount", "ConsecutiveErrors", "MaxMissedCount", "ThresholdChecks"}

\* a cron_groups entry that sets the fields of set to v
CronGroupSetting(name, set, v) ==
    [Name              |-> name,
     MaxRunningTime    |-> IF "MaxRunningTime" \in set THEN <<v>> ELSE <<>>,
     MaxPendingCount   |-> IF "MaxPendingCount" \in set THEN <<v>> ELSE <<>>,
     ConsecutiveErrors |-> IF "ConsecutiveErrors" \in set THEN <<v>> ELSE <<>>,
     MaxMissedCount    |-> IF "MaxMissedCount" \in set THEN <<v>> ELSE <<>>,
     ThresholdChecks   |-> IF "ThresholdChecks" \in set THEN <<v>> ELSE <<>>]

\* the detection section of a config file: nothing set, or everything
RawDetections ==
    { [MaxRunningTime             |-> 0,
       MaxPendingCount            |-> 0,
       ConsecutiveErrors          |-> 0,
       MaxMissedCount             |-> 0,
       LookbackWindow             |-> 0,
       ThresholdChecks            |-> 0,
       SchedulerInactivityMinutes |-> 0,
       SchedulerLookaheadMinutes  |-> 0],
      [MaxRunningTime             |-> 45,
       MaxPendingCount            |-> 2,
       ConsecutiveErrors          |-> 2,
       MaxMissedCount             |-> 2,
       LookbackWindow             |-> 30,
       ThresholdChecks            |-> 1,
       SchedulerInactivityMinutes |-> 5,
       SchedulerLookaheadMinutes  |-> 5] }

\* the cron_groups section: no group, a group of the job, one after a group
\* of another name, and one before a second group of the job
RawCronGroups ==
    {<<>>, <<CronGroupSetting("B", OverrideFields, 7)>>} \cup
    UNION { { <<CronGroupSetting("A", set, v)>>,
              <<CronGroupSetting("B", OverrideFields, 7), CronGroupSetting("A", set, v)>>,
              <<CronGroupSetting("A", set, v), CronGroupSetting("A", OverrideFields, 9)>> } :
            set \in SUBSET OverrideFields, v \in {0, 1} }

RawConfigs ==
    { [Detection |-> d, CronGroups |-> g, Slack |-> SlackConfig(FALSE)] :
        d \in RawDetections, g \in RawCronGroups }

\* "if x == 0 { x = d }"
OrDefault(x, d) == IF x = 0 THEN d ELSE x

\* the "Set defaults" block of Load, for the detection section
SetDefaults(d) ==
    [d EXCEPT !.MaxRunningTime    = OrDefault(@, 30),
              !.MaxPendingCount   = OrDefault(@, 20),
              !.ConsecutiveErrors = OrDefault(@, 3),
              !.MaxMissedCount    = OrDefault(@, 5),
              !.LookbackWindow    = OrDefault(@, 60),
              !.ThresholdChecks   = OrDefault(@, 2)]

\* Load after "v.Unmarshal(&cfg)"
Load(cfg) == [cfg EXCEPT !.Detection = SetDefaults(@)]

InitConfig ==
    /\ now = 0
    /\ pc = "load"
    /\ polls = 0
    /\ stopped = FALSE
    /\ config \in RawConfigs
    /\ env = AnyEnv
    /\ jobStates = << >>
    /\ schedulerState = NewSchedulerState
    /\ alerts = [j \in Jobs \cup {"SCHEDULER"} |-> <<>>]
    /\ transitions = EmptyOut
    /\ notifications = EmptyOut
    /\ alertLog = EmptyOut
    /\ transLog = EmptyOut
    /\ pollLog = NewPollLogs
    /\ call = [raw |-> config, groupName |-> "A", schedules |-> <<>>]
    /\ ret = <<>>

ApplyLoad ==
    /\ pc = "load"
    /\ config' = Load(config)
    /\ pc' = "loaded"
    /\ UNCHANGED <<now, stopped, polls, env, jobStates, schedulerState, alerts,
                   transitions, notifications, alertLog, transLog, pollLog, call, ret>>

ApplyGetDetectionConfig ==
    /\ pc = "loaded"
    /\ ret' = GetDetectionConfig(config, call.groupName)
    /\ pc' = "resolved"
    /\ UNCHANGED <<now, stopped, polls, config, env, jobStates, schedulerState, alerts,
                   transitions, notifications, alertLog, transLog, pollLog, call>>

\* "alerts := s.analyzer.Analyze(schedules)" of the first poll
ApplyAnalyze ==
    /\ pc = "resolved"
    /\ \E b \in Batches(now) :
          /\ call' = [call EXCEPT !.schedules = b]
          /\ \E an \in { Analyze(config, jobStates, b, now) } :
                /\ jobStates' = an.states
                /\ alerts' = [j \in Jobs \cup {"SCHEDULER"} |->
                                 IF j \in Jobs THEN an.alerts[j] ELSE <<>>]
    /\ pc' = "analyzed"
    /\ UNCHANGED <<now, stopped, polls, config, env, schedulerState, transitions,
                   notifications, alertLog, transLog, pollLog, ret>>

NextConfig ==
    \/ ApplyLoad
    \/ ApplyGetDetectionConfig
    \/ ApplyAnalyze

SpecConfig == InitConfig /\ [][NextConfig]_vars

----------------------------------------------------------------------------
(* The polling loop on any batches, the inputs of each poll kept, for each *)
(* debounce depth of the configurations.  Without Slack the job states a   *)
(* poll leaves are those Analyze leaves.                                   *)

InitCounter ==
    /\ now = 0
    /\ pc = "check"
    /\ polls = 0
    /\ stopped = FALSE
    /\ config \in Configs
    /\ env = RowsEnv
    /\ jobStates = << >>
    /\ schedulerState = NewSchedulerState
    /\ alerts = [j \in Jobs \cup {"SCHEDULER"} |-> <<>>]
    /\ transitions = EmptyOut
    /\ notifications = EmptyOut
    /\ alertLog = EmptyOut
    /\ transLog = EmptyOut
    /\ pollLog = NewPollLogs
    /\ call = <<>>
    /\ ret = <<>>

SpecCounter == InitCounter /\ [][Next]_vars

----------------------------------------------------------------------------
(* Properties *)

Threshold(j) == GetDetectionConfig(config, j)

\* C1: any two alerts Analyze surfaces for a job are at least 5 minutes
\* apart, and one Analyze call surfaces at most one alert per job.
AlertsFiveMinutesApart ==
    \A j \in Jobs :
        /\ Len(alerts[j]) <= 1
        /\ \A i \in 1..(Len(alertLog[j]) - 1) :
              alertLog[j][i + 1].at - alertLog[j][i].at >= SuppressMinutes

\* the missed condition held on each of three polls, the first and the third alerted
AlertsFiveMinutesApartWitness ==
    \E j \in Jobs :
        /\ Len(alertLog[j]) = 2
        /\ pollLog[j].streak["missed"] = 3
        /\ alerts[j] # <<>>

\* C2: a job whose every batch is clean (no pending, error or missed record,
\* no running record over max_running_time), with positive thresholds, never
\* gets an alert and never a not_alerting -> alerting transition.
CleanJobNeverAlerts ==
    \A j \in Jobs :
        ( /\ pollLog[j].clean
          /\ Threshold(j).MaxPendingCount > 0
          /\ Threshold(j).ConsecutiveErrors > 0
          /\ Threshold(j).MaxMissedCount > 0
          /\ Threshold(j).MaxRunningTime > 0 )
        => /\ alertLog[j] = <<>>
           /\ alerts[j] = <<>>
           /\ \A i \in 1..Len(transLog[j]) : transLog[j][i].to # "alerting"

\* a job seen on three clean polls with the transition tracker running
CleanJobNeverAlertsWitness ==
    \E j \in DOMAIN jobStates :
        /\ pollLog[j].clean
        /\ config.Slack.Enabled
        /\ jobStates[j].LastKnownState = "not_alerting"
        /\ jobStates[j].LastChecked = now
        /\ polls = 3 /\ now = 6

\* C3: consecutive_stuck never exceeds the number of polls completed since
\* the job's state was created or its counter was last reset to 0.
CounterBoundedByPolls ==
    \A j \in DOMAIN jobStates : jobStates[j].ConsecutiveStuck <= pollLog[j].since

\* the transitions of a job, the removals of its state left out
TransitionsOf(j) == SelectSeq(transLog[j], LAMBDA e : e.to # "removed")

\* C4 (as claimed): the transitions of a job strictly alternate, starting
\* with not_alerting -> alerting, also across a removal of the job's state.
TransitionsAlternate ==
    \A j \in Jobs :
        \A i \in 1..Len(TransitionsOf(j)) :
            TransitionsOf(j)[i].to = (IF i % 2 = 1 THEN "alerting" ELSE "not_alerting")

\* C4 (amended): the transitions emitted while the job's state exists
\* strictly alternate, starting with not_alerting -> alerting; after the
\* 24-hour cleanup removed the state the sequence starts again with
\* not_alerting -> alerting.
TransitionsAlternateWhileTracked ==
    \A j \in Jobs :
        \A i \in 1..Len(transLog[j]) :
            /\ transLog[j][i].to = "alerting"
                  => (i = 1 \/ transLog[j][i - 1].to \in {"not_alerting", "removed"})
            /\ transLog[j][i].to = "not_alerting"
                  => (i > 1 /\ transLog[j][i - 1].to = "alerting")

\* a job went alerting, recovered and went alerting again
TransitionsAlternateWitness ==
    \E j \in Jobs :
        /\ Len(transLog[j]) = 3
        /\ transLog[j][1].to = "alerting"
        /\ transLog[j][2].to = "not_alerting"
        /\ transLog[j][3].to = "alerting"

\* C5: every alerting -> not_alerting transition carries the time elapsed
\* since the job's immediately preceding not_alerting -> alerting transition.
RecoveryDuration ==
    \A j \in Jobs :
        \A i \in 1..Len(transLog[j]) :
            transLog[j][i].to = "not_alerting"
               => /\ i > 1
                  /\ transLog[j][i - 1].to = "alerting"
                  /\ transLog[j][i].dur = transLog[j][i].at - transLog[j][i - 1].at

\* a recovery two polls (6 minutes) after the job went alerting
RecoveryDurationWitness ==
    \E j \in Jobs :
        \E i \in 2..Len(transLog[j]) :
            /\ transLog[j][i].to = "not_alerting"
            /\ transLog[j][i].dur = 6
            /\ transitions[j] # <<>>

\* C6: on k consecutive polls from a fresh state whose batch shows only the
\* long-running condition, consecutive_stuck is k after the k-th poll, no
\* alert is emitted before poll N and the long-running alert is emitted on
\* poll N (N the debounce depth), with or without the transition tracker.
LongRunningDebounce ==
    env.scenario = <<{{"running"}}>> =>
        \A j \in Jobs :
            polls >= 1 =>
                /\ j \in DOMAIN jobStates
                /\ jobStates[j].ConsecutiveStuck = polls
                /\ polls < Threshold(j).ThresholdChecks => alerts[j] = <<>>
                /\ polls = Threshold(j).ThresholdChecks =>
                      /\ Len(alerts[j]) = 1
                      /\ alerts[j][1].Reason =
                            "job running longer than max_running_time threshold (30m0s)"

\* C7: an alert is surfaced only if its condition was detected on this poll
\* and on each of the threshold_checks - 1 polls before it.
AlertOnlyAfterDebounce ==
    \A j \in Jobs :
        \A i \in 1..Len(alerts[j]) :
            pollLog[j].streak[alerts[j][i].Status] >= Threshold(j).ThresholdChecks

\* C8: when a single one of the pending, errors or missed conditions holds on
\* N consecutive polls (nothing running over the threshold, no earlier alert),
\* an alert of that heuristic is emitted no later than the N-th poll.
SingleConditionAlerts ==
    \A k \in {"pending", "error", "missed"} :
        env.scenario = <<{{k}}>> =>
            \A j \in Jobs :
                polls >= Threshold(j).ThresholdChecks =>
                    \E i \in 1..Len(alertLog[j]) : alertLog[j][i].Status = k

\* no alert of the job in the 5 minutes before the poll that just ended
Quiet(j) ==
    \A i \in 1..Len(alertLog[j]) :
        alertLog[j][i].at = now \/ now - alertLog[j][i].at >= SuppressMinutes

PendingReason(j) ==
    "too many pending jobs (" \o ToString(pollLog[j].pending) \o " exceeds threshold of "
        \o ToString(Threshold(j).MaxPendingCount) \o ")"

\* C9 (as claimed): with debounce depth 1, nothing running over the threshold
\* and no alert in the previous 5 minutes, Analyze emits an alert for the job
\* iff the batch holds more pending records than max_pending_count, and the
\* alert carries the pending count and the pending reason.
AlertIffPendingOver ==
    \A j \in Jobs :
        ( /\ pc = "select"
          /\ Threshold(j).ThresholdChecks = 1
          /\ pollLog[j].streak["running"] = 0
          /\ Quiet(j) )
        => /\ (alerts[j] # <<>>) <=> (pollLog[j].pending > Threshold(j).MaxPendingCount)
           /\ \A i \in 1..Len(alerts[j]) :
                 /\ alerts[j][i].PendingCount = pollLog[j].pending
                 /\ alerts[j][i].Reason = PendingReason(j)

\* C9 (amended): under the same conditions Analyze emits a pending-accumulation
\* alert (status "pending") iff the batch holds more pending records than
\* max_pending_count; that alert carries the pending count and the reason.
PendingAlertIffPendingOver ==
    \A j \in Jobs :
        ( /\ pc = "select"
          /\ Threshold(j).ThresholdChecks = 1
          /\ pollLog[j].streak["running"] = 0
          /\ Quiet(j) )
        => /\ (\E i \in 1..Len(alerts[j]) : alerts[j][i].Status = "pending")
                 <=> (pollLog[j].pending > Threshold(j).MaxPendingCount)
           /\ \A i \in 1..Len(alerts[j]) :
                 alerts[j][i].Status = "pending" =>
                    /\ alerts[j][i].PendingCount = pollLog[j].pending
                    /\ alerts[j][i].Reason = PendingReason(j)

\* two pending records against max_pending_count 1 alert in the same poll
PendingAlertWitness ==
    \E j \in Jobs :
        /\ pc = "select"
        /\ Threshold(j).ThresholdChecks = 1
        /\ Quiet(j)
        /\ alerts[j] # <<>>
        /\ alerts[j][1].PendingCount = 2
        /\ alerts[j][1].Reason = "too many pending jobs (2 exceeds threshold of 1)"

\* the records checkConsecutiveErrors is claimed to count: the error records
\* among the first 2 x consecutive_errors records, before the first success
CountedErrors(schedules, n) ==
    LET scanned   == { i \in 1..Len(schedules) : i <= 2 * n }
        successes == { i \in scanned : schedules[i].Status = "success" }
    IN { i \in scanned : /\ schedules[i].Status = "error"
                         /\ \A k \in successes : i < k }

\* C10: the consecutive-errors heuristic counts the error records met while
\* scanning most-recent-first, stops at the first success, looks at no more
\* than 2 x consecutive_errors records, holds iff the count reaches
\* consecutive_errors, and its alert carries the count and the message of the
\* most recent error record.
ErrorScanCounts ==
    pc = "done" =>
        LET counted == CountedErrors(call.schedules, call.cfg.ConsecutiveErrors)
            count   == Cardinality(counted)
            holds   == count >= call.cfg.ConsecutiveErrors
        IN /\ (ret.state.ConsecutiveStuck = 1) <=> holds
           /\ ret.state.ErrorStreak = (IF holds THEN count ELSE 0)
           /\ (ret.alert # <<>>) <=> (holds /\ call.cfg.ThresholdChecks = 1)
           /\ ret.alert # <<>> =>
                 /\ ret.alert[1].ErrorCount = count
                 /\ ret.alert[1].ErrorMessage =
                       (IF call.schedules[Min(counted)].Messages = <<>> THEN ""
                        ELSE call.schedules[Min(counted)].Messages[1])

\* error, error, error, success against threshold 3, debounce depth 1
ErrorScanWitness ==
    /\ pc = "done"
    /\ Len(call.schedules) = 4
    /\ \A i \in 1..3 : call.schedules[i].Status = "error"
    /\ call.schedules[4].Status = "success"
    /\ call.cfg.ConsecutiveErrors = 3
    /\ ret.alert # <<>>
    /\ ret.alert[1].ErrorCount = 3
    /\ ret.alert[1].ErrorMessage = "m1"

\* the debounce depth of the scheduler check
SchedulerDepth == IF config.Detection.ThresholdChecks = 0 THEN 2 ELSE config.Detection.ThresholdChecks

\* C11 (as claimed): starting from consecutive_inactive 0, after k consecutive
\* polls in which both scheduler queries succeed and return 0 the counter is
\* k, no SCHEDULER alert is returned before poll N and one is returned on
\* poll N (N the debounce depth, 2 when threshold_checks is 0).
SchedulerDebounce ==
    (pollLog["SCHEDULER"].run >= 1 /\ pollLog["SCHEDULER"].base = 0) =>
        /\ schedulerState.ConsecutiveInactive = pollLog["SCHEDULER"].run
        /\ pollLog["SCHEDULER"].run < SchedulerDepth => alerts["SCHEDULER"] = <<>>
        /\ pollLog["SCHEDULER"].run = SchedulerDepth =>
              /\ alerts["SCHEDULER"] # <<>>
              /\ alerts["SCHEDULER"][1].JobCode = "SCHEDULER"

\* C11 (amended): the same, the alert on poll N being returned provided no
\* SCHEDULER alert was returned in the 5 minutes before that poll.
SchedulerDebounceWhenQuiet ==
    (pollLog["SCHEDULER"].run >= 1 /\ pollLog["SCHEDULER"].base = 0) =>
        /\ schedulerState.ConsecutiveInactive = pollLog["SCHEDULER"].run
        /\ pollLog["SCHEDULER"].run < SchedulerDepth => alerts["SCHEDULER"] = <<>>
        /\ (pollLog["SCHEDULER"].run = SchedulerDepth /\ pollLog["SCHEDULER"].quiet) =>
              /\ alerts["SCHEDULER"] # <<>>
              /\ alerts["SCHEDULER"][1].JobCode = "SCHEDULER"

\* threshold_checks 0: the second consecutive inactive poll alerts
SchedulerDebounceWitness ==
    /\ config.Detection.ThresholdChecks = 0
    /\ pollLog["SCHEDULER"].run = 2
    /\ pollLog["SCHEDULER"].base = 0
    /\ schedulerState.ConsecutiveInactive = 2
    /\ alerts["SCHEDULER"] # <<>>
    /\ alerts["SCHEDULER"][1].JobCode = "SCHEDULER"

\* the last poll ran the scheduler check on these query results
SchedulerChecked == pc = "select" /\ call # <<>> /\ ~call.fetchErr

\* C12: when both scheduler queries succeed and a count is positive, no
\* SCHEDULER alert is returned and consecutive_inactive becomes 0 whatever it
\* was; a SCHEDULER alert is only returned on a poll where both counts are 0.
SchedulerActiveResets ==
    SchedulerChecked =>
        /\ ( /\ ~call.recent.err /\ ~call.upcoming.err
             /\ (call.recent.count > 0 \/ call.upcoming.count > 0) )
           => /\ alerts["SCHEDULER"] = <<>>
              /\ schedulerState.ConsecutiveInactive = 0
        /\ alerts["SCHEDULER"] # <<>>
           => /\ ~call.recent.err /\ ~call.upcoming.err
              /\ call.recent.count = 0 /\ call.upcoming.count = 0

\* only the upcoming count is positive and the counter drops from 2 to 0
SchedulerActiveResetsWitness ==
    /\ SchedulerChecked
    /\ ~call.recent.err /\ ~call.upcoming.err
    /\ call.recent.count = 0 /\ call.upcoming.count > 0
    /\ pollLog["SCHEDULER"].before.ConsecutiveInactive = 2
    /\ schedulerState.ConsecutiveInactive = 0
    /\ alerts["SCHEDULER"] = <<>>

\* C13: if either scheduler query fails, no SCHEDULER alert is returned,
\* consecutive_inactive and the scheduler's last alert time stay as they
\* were, and the job states, alerts, transitions and notifications of the
\* poll are those of the same poll without the scheduler check.
SchedulerFailureIsolated ==
    [][ ( /\ pc = "check" /\ pc' = "select"
          /\ ~call'.fetchErr
          /\ (call'.recent.err \/ call'.upcoming.err) )
        => /\ schedulerState' = schedulerState
           /\ alerts'["SCHEDULER"] = <<>>
           /\ jobStates' = RunCheckAnalyzed(Analyze(config, jobStates, call'.rows, now),
                                            [state |-> schedulerState, alert |-> <<>>],
                                            call'.rows, call'.sendOk).jobStates
           /\ \A j \in Jobs :
                 /\ alerts'[j] = Analyze(config, jobStates, call'.rows, now).alerts[j]
                 /\ transitions'[j] =
                       RunDetect(Analyze(config, jobStates, call'.rows, now), call'.rows).transitions[j]
      ]_vars

\* the second query failed on a poll that alerted for a job, the scheduler
\* counter staying at 1
SchedulerFailureIsolatedWitness ==
    /\ SchedulerChecked
    /\ ~call.recent.err /\ call.upcoming.err
    /\ schedulerState.ConsecutiveInactive = 1
    /\ pollLog["SCHEDULER"].before = schedulerState
    /\ \E j \in Jobs : alerts[j] # <<>>

\* C14: if fetching the records fails the poll ends at once: no alert, no
\* transition, no notification, the job states and the scheduler state as
\* they were; the loop goes on and the next tick starts a poll.
FetchFailureAbandonsPoll ==
    /\ [][ (pc = "check" /\ pc' = "select" /\ call'.fetchErr)
           => /\ jobStates' = jobStates
              /\ schedulerState' = schedulerState
              /\ alerts' = [j \in Jobs \cup {"SCHEDULER"} |-> <<>>]
              /\ transitions' = EmptyOut
              /\ notifications' = EmptyOut ]_vars
    /\ []( (pc = "select" /\ call # <<>> /\ call.fetchErr /\ polls < env.polls)
              => ENABLED (\E dt \in env.steps : Tick(dt)) )

\* the fetch failed on the poll after one that left an alerting job and an
\* inactive scheduler
FetchFailureAbandonsPollWitness ==
    /\ pc = "select"
    /\ call # <<>>
    /\ call.fetchErr
    /\ polls = 2
    /\ schedulerState.ConsecutiveInactive = 1
    /\ \E j \in DOMAIN jobStates : jobStates[j].LastKnownState = "alerting"

\* C15: the health check of the transition tracker is read-only for the
\* debounce state: after a poll, consecutive_stuck, error_streak and
\* missed_streak of every job are as Analyze left them.
HealthCheckReadOnly ==
    [][ (pc = "check" /\ pc' = "select" /\ ~call'.fetchErr)
        => \A j \in DOMAIN jobStates' :
              /\ jobStates'[j].ConsecutiveStuck =
                    Analyze(config, jobStates, call'.rows, now).states[j].ConsecutiveStuck
              /\ jobStates'[j].ErrorStreak =
                    Analyze(config, jobStates, call'.rows, now).states[j].ErrorStreak
              /\ jobStates'[j].MissedStreak =
                    Analyze(config, jobStates, call'.rows, now).states[j].MissedStreak
      ]_vars

\* C16: for a job whose state is created by the current poll no transition
\* is emitted, also when the job is classified unhealthy on that poll.
NoTransitionOnFirstSight ==
    [][ \A j \in Jobs :
           (pc = "check" /\ pc' = "select" /\ j \notin DOMAIN jobStates /\ j \in DOMAIN jobStates')
              => transitions'[j] = <<>> ]_vars

\* C17: after Stop is called, Start eventually returns.
StopLeadsToReturn == stopped ~> (pc = "returned")

\* Start has returned after a stop that came while the loop was running
StopLeadsToReturnWitness == stopped /\ pc = "returned" /\ polls >= 1

\* C18: once Stop has been called no new poll is started: from the select the
\* loop only returns.
NoPollAfterStop == [][ (stopped /\ pc = "select") => pc' # "check" ]_vars

\* the caller of GetJobStates has changed the map it was given
CallerEdits == ret # <<>> /\ ret' # <<>> /\ ret'.edits = ret.edits + 1

\* C19: GetJobStates returns a defensive copy: a caller's change of the
\* returned map or of a JobState in it leaves the analyzer's job states as
\* they are, and a poll leaves a map that was returned as it is.
GetJobStatesDefensiveCopy ==
    /\ [][ CallerEdits => jobStates' = jobStates ]_vars
    /\ [][ (ret # <<>> /\ pc = "check" /\ pc' = "select") => SnapshotView' = SnapshotView ]_vars

\* a returned map that its caller has changed and that a later poll, which
\* changed the analyzer's state of the job, has left behind
GetJobStatesDefensiveCopyWitness ==
    /\ ret # <<>>
    /\ ret.edits >= 1
    /\ "A" \in DOMAIN jobStates
    /\ "A" \in DOMAIN ret.states.at
    /\ jobStates["A"].LastChecked > ret.states.at["A"].val.LastChecked
    /\ jobStates["A"].ConsecutiveStuck # ret.states.at["A"].val.ConsecutiveStuck

\* C20: the missed-executions condition holds only when the number of missed
\* records of the job in the batch is strictly greater than max_missed_count
\* (missed_streak is that number while the condition holds and 0 otherwise).
MissedOnlyAboveMax ==
    \A j \in DOMAIN jobStates :
       jobStates[j].MissedStreak > 0 =>
          jobStates[j].MissedStreak > Threshold(j).MaxMissedCount

Cooldown(ty) ==
    IF ty = "alerting" THEN config.Slack.AlertCooldown ELSE config.Slack.RecoveryCooldown

RecoveryNeverLost ==
    \A j \in Jobs :
       (/\ config.Slack.SendRecovery
        /\ pollLog[j].owed
        /\ \E i \in 1..Len(transitions[j]) : transitions[j][i].ToState = "not_alerting")
          => \E i \in 1..Len(notifications[j]) : notifications[j][i].Type = "not_alerting"

\* C23: every Slack alerting notification carries the reason of the
\* not_alerting -> alerting transition that triggered it, and that reason is
\* not empty.
NotificationCarriesReason ==
    \A j \in Jobs : \A i \in 1..Len(notifications[j]) :
       notifications[j][i].Type = "alerting" =>
          /\ notifications[j][i].Reason # ""
          /\ \E k \in 1..Len(transitions[j]) :
                /\ transitions[j][k].ToState = "alerting"
                /\ transitions[j][k].Reason = notifications[j][i].Reason

\* the alerts the four heuristics return within one job's pass of Analyze's
\* loop, surfaced or not, in the order of the code; acc is [state, alerts]
Collect(acc, r, t) ==
    [state |-> Surface(acc, r, t).state, alerts |-> acc.alerts \o r.alert]

CollectLongRunning(acc, schedList, cfg, t) ==
    Collect(acc, checkLongRunning(schedList, cfg, acc.state, t), t)

CollectPendingAccumulation(acc, schedList, cfg, t) ==
    Collect(acc, checkPendingAccumulation(schedList, cfg, acc.state, t), t)

CollectConsecutiveErrors(acc, schedList, cfg, t) ==
    Collect(acc, checkConsecutiveErrors(schedList, cfg, acc.state, t), t)

CollectMissedExecutions(acc, schedList, cfg, t) ==
    Collect(acc, checkMissedExecutions(schedList, cfg, acc.state, t), t)

ReturnedInAnalyze(c, states, schedules, jobCode, t) ==
    CollectMissedExecutions(
        CollectConsecutiveErrors(
            CollectPendingAccumulation(
                CollectLongRunning(
                    [state  |-> [(IF jobCode \in DOMAIN states THEN states[jobCode]
                                  ELSE NewJobState(jobCode))
                                    EXCEPT !.LastChecked = t],
                     alerts |-> <<>>],
                    GroupByJob(schedules, jobCode), GetDetectionConfig(c, jobCode), t),
                GroupByJob(schedules, jobCode), GetDetectionConfig(c, jobCode), t),
            GroupByJob(schedules, jobCode), GetDetectionConfig(c, jobCode), t),
        GroupByJob(schedules, jobCode), GetDetectionConfig(c, jobCode), t).alerts

\* a poll that fetched its rows has just ended and left them in call'
PollOnRows == pc = "check" /\ pc' = "select" /\ call' # <<>> /\ ~call'.fetchErr

\* C24: in every poll in which the transition tracker runs it classifies a
\* job as alerting if and only if one of the four heuristics returned an
\* alert for the job in the same poll's Analyze call.
TrackerAgreesWithAnalyze ==
    [][ \A j \in Jobs :
           (PollOnRows /\ config.Slack.Enabled /\ j \in JobCodes(call'.rows))
              => ((jobStates'[j].LastKnownState = "alerting")
                    <=> (ReturnedInAnalyze(config, jobStates, call'.rows, j, now) # <<>>))
      ]_vars

\* the job's state as Analyze leaves it for DetectStateTransitions
Analyzed(j) == Analyze(config, jobStates, call'.rows, now).states[j]

\* the health state stored for the job when DetectStateTransitions starts
StoredHealth(j) ==
    IF Analyzed(j).LastKnownState = "" THEN "not_alerting" ELSE Analyzed(j).LastKnownState

\* the classification DetectStateTransitions makes of the job
Classified(j) ==
    IF isJobHealthy(GroupByJob(call'.rows, j), Threshold(j), Analyzed(j), now).healthy
    THEN "not_alerting" ELSE "alerting"

\* C25: DetectStateTransitions emits a transition for a job of the batch if
\* and only if the job's classification differs from its stored health
\* state, at most one per job, from the stored state to the classification;
\* afterwards the stored health state is the classification.
TransitionIffFlip ==
    [][ \A j \in Jobs :
           (PollOnRows /\ config.Slack.Enabled /\ j \in JobCodes(call'.rows))
              => /\ (transitions'[j] # <<>>) <=> (Classified(j) # StoredHealth(j))
                 /\ Len(transitions'[j]) <= 1
                 /\ transitions'[j] # <<>> =>
                       /\ transitions'[j][1].FromState = StoredHealth(j)
                       /\ transitions'[j][1].ToState = Classified(j)
                 /\ jobStates'[j].LastKnownState = Classified(j)
      ]_vars

\* a poll on rows of the job has left it alerting without a transition,
\* after the poll that emitted the transition to alerting
TransitionIffFlipWitness ==
    /\ pc = "select"
    /\ "A" \in DOMAIN jobStates
    /\ "A" \in JobCodes(call.rows)
    /\ jobStates["A"].LastKnownState = "alerting"
    /\ transitions["A"] = <<>>
    /\ \E i \in 1..Len(transLog["A"]) : transLog["A"][i].to = "alerting"

WindowClear(j) ==
    j \in DOMAIN jobStates => now - jobStates[j].LastAlertTime >= SuppressMinutes

\* C27: when several heuristics return an alert for a job within one Analyze
\* call, the alert of the earliest of them is the only one surfaced if the
\* job's suppression window is clear and none is surfaced if it is not; the
\* later heuristics still count on the shared counter.
FirstHeuristicWins ==
    [][ \A j \in Jobs :
           (PollOnRows /\ j \in JobCodes(call'.rows)
              /\ Len(ReturnedInAnalyze(config, jobStates, call'.rows, j, now)) >= 2)
           => /\ alerts'[j] =
                   (IF WindowClear(j)
                    THEN <<ReturnedInAnalyze(config, jobStates, call'.rows, j, now)[1]>>
                    ELSE <<>>)
              /\ \A i \in 2..Len(ReturnedInAnalyze(config, jobStates, call'.rows, j, now)) :
                    ReturnedInAnalyze(config, jobStates, call'.rows, j, now)[i].ConsecutiveStuck
                      > ReturnedInAnalyze(config, jobStates, call'.rows, j, now)[i - 1].ConsecutiveStuck
              /\ ~config.Slack.Enabled =>
                    jobStates'[j].ConsecutiveStuck
                      = ReturnedInAnalyze(config, jobStates, call'.rows, j, now)[
                           Len(ReturnedInAnalyze(config, jobStates, call'.rows, j, now))].ConsecutiveStuck
      ]_vars

\* a poll in which two heuristics returned an alert inside the suppression
\* window of the alert of the poll before: nothing surfaced, counter counted on
FirstHeuristicWinsWitness ==
    /\ pc = "select"
    /\ polls >= 2
    /\ ~config.Slack.Enabled
    /\ "A" \in DOMAIN jobStates
    /\ alerts["A"] = <<>>
    /\ jobStates["A"].LastAlertTime = now - 3
    /\ Cardinality(Detected(GroupByJob(call.rows, "A"), Threshold("A"), now)) >= 2
    /\ jobStates["A"].ConsecutiveStuck >= 3

\* the i-th record is running and has a start time
RunningStarted(schedules, i) ==
    schedules[i].Status = "running" /\ schedules[i].ExecutedAt # <<>>

\* C28: the long-running heuristic looks at the first running, started
\* record only: if that record is not over max_running_time, the heuristic
\* does not trigger and the counter is set to 0, whatever records follow.
LongRunningFirstRecordOnly ==
    pc = "done" =>
       \A i \in 1..Len(call.schedules) :
          (/\ RunningStarted(call.schedules, i)
           /\ \A k \in 1..(i - 1) : ~RunningStarted(call.schedules, k)
           /\ now - call.schedules[i].ExecutedAt[1] <= call.cfg.MaxRunningTime)
             => ret.alert = <<>> /\ ret.state.ConsecutiveStuck = 0

\* C28 as amended: the heuristic triggers on the first running, started
\* record that is over max_running_time, wherever it stands; only when no
\* record of the batch is one is the counter set to 0.
LongRunningAnyRecord ==
    pc = "done" =>
       IF \E i \in 1..Len(call.schedules) :
             /\ RunningStarted(call.schedules, i)
             /\ now - call.schedules[i].ExecutedAt[1] > call.cfg.MaxRunningTime
       THEN /\ ret.state.ConsecutiveStuck = call.state.ConsecutiveStuck + 1
            /\ (ret.alert # <<>>) <=> (ret.state.ConsecutiveStuck >= call.cfg.ThresholdChecks)
            /\ ret.alert # <<>> =>
                  \E i \in 1..Len(call.schedules) :
                     /\ RunningStarted(call.schedules, i)
                     /\ now - call.schedules[i].ExecutedAt[1] > call.cfg.MaxRunningTime
                     /\ \A k \in 1..(i - 1) :
                           ~(/\ RunningStarted(call.schedules, k)
                             /\ now - call.schedules[k].ExecutedAt[1] > call.cfg.MaxRunningTime)
                     /\ ret.alert[1].RunningTime = <<now - call.schedules[i].ExecutedAt[1]>>
       ELSE ret.alert = <<>> /\ ret.state.ConsecutiveStuck = 0

\* the heuristic has triggered on a record that follows a running record
\* within max_running_time
LongRunningAnyRecordWitness ==
    /\ pc = "done"
    /\ Len(call.schedules) = 2
    /\ RunningStarted(call.schedules, 1)
    /\ now - call.schedules[1].ExecutedAt[1] <= call.cfg.MaxRunningTime
    /\ ret.alert # <<>>
    /\ ret.alert[1].RunningTime = <<now - call.schedules[2].ExecutedAt[1]>>

\* the times a state created by the poll that has just ended can hold
FreshTime(x) == x = ZeroTime \/ x = now

\* C29: a poll removes a job state exactly when its last_checked lies more
\* than 24 hours before now, never the state of a job of the batch; a job
\* that appears after its state was removed starts from a fresh state:
\* nothing of the state, the counter, health state and stuck_since included,
\* is older than the poll that created it.
CleanupExactlyAfterDay ==
    /\ [][ \A j \in DOMAIN jobStates :
              PollOnRows =>
                 IF j \in JobCodes(call'.rows)
                 THEN j \in DOMAIN jobStates'
                 ELSE (j \notin DOMAIN jobStates')
                         <=> (jobStates[j].LastChecked < now - CleanupMinutes) ]_vars
    /\ [][ \A j \in Jobs :
              (PollOnRows /\ j \notin DOMAIN jobStates /\ j \in DOMAIN jobStates') =>
                 /\ FreshTime(jobStates'[j].LastAlertTime)
                 /\ FreshTime(jobStates'[j].LastSlackAlert)
                 /\ FreshTime(jobStates'[j].StuckSince)
                 /\ jobStates'[j].LastChecked = now
                 /\ \A i \in 1..Len(transitions'[j]) :
                       transitions'[j][i].FromState = "not_alerting"
                 /\ \A i \in 1..Len(alerts'[j]) : alerts'[j][i].ConsecutiveStuck <= 4 ]_vars

\* a job is back, healthy, after the poll that removed its alerting state
CleanupExactlyAfterDayWitness ==
    /\ pc = "select"
    /\ polls = 3
    /\ "A" \in DOMAIN jobStates
    /\ jobStates["A"].LastKnownState = "not_alerting"
    /\ jobStates["A"].ConsecutiveStuck = 0
    /\ Len(transLog["A"]) = 2
    /\ transLog["A"][1].to = "alerting"
    /\ transLog["A"][2].to = "removed"

\* C30: every access to a job state is made under the analyzer's lock and
\* no accessor hands out a shared reference, so that the diagnostic reader
\* never copies a JobState while the polling goroutine writes it.
NoUnsynchronizedAccess ==
    ~(/\ ret.reader = "copying"
      /\ pc = "update"
      /\ \E j \in DOMAIN jobStates : notifications[j] # <<>>)

\* C31: after a signal that arrived while a poll was in progress, the
\* database client is not closed, the log file not closed and the PID file
\* not removed before Start has returned.
ReleaseAfterStartReturns ==
    (/\ ret.midPoll = <<TRUE>>
     /\ (ret.db = "closed" \/ ret.log = "closed" \/ ret.pidfile = "removed"))
    => pc = "returned"

\* C32: two instances never hold the same PID file at the same time, be it
\* the path both were started with or the fallback path of one of them.
OneHolderPerPIDFile ==
    \A i, j \in Instances :
       (/\ i # j
        /\ ret.inst[i].pc = "holding"
        /\ ret.inst[j].pc = "holding")
       => ret.inst[i].path # ret.inst[j].path

\* the job's stuck_since before the step, the zero time when it had no state
StuckSinceBefore(j) ==
    IF j \in DOMAIN jobStates THEN jobStates[j].StuckSince ELSE ZeroTime

\* the poll that ends with this step emitted a transition of the job to s
TransitionedTo(j, s) ==
    /\ PollEnds
    /\ transitions'[j] # <<>>
    /\ transitions'[j][1].ToState = s

\* C33: after every step a job's stuck_since is set if and only if its
\* stored health state is alerting; it becomes set exactly in a poll that
\* emits the job's transition to alerting and becomes zero exactly in a poll
\* that emits its recovery.
StuckSinceIffAlerting ==
    [][ \A j \in DOMAIN jobStates' :
           /\ (jobStates'[j].StuckSince # ZeroTime) <=> (jobStates'[j].LastKnownState = "alerting")
           /\ (StuckSinceBefore(j) = ZeroTime /\ jobStates'[j].StuckSince # ZeroTime)
                 <=> TransitionedTo(j, "alerting")
           /\ (StuckSinceBefore(j) # ZeroTime /\ jobStates'[j].StuckSince = ZeroTime)
                 <=> TransitionedTo(j, "not_alerting")
      ]_vars

\* the job is alerting with stuck_since set, and a recovery has cleared it
\* before
StuckSinceIffAlertingWitness ==
    \E j \in DOMAIN jobStates :
       /\ jobStates[j].LastKnownState = "alerting"
       /\ jobStates[j].StuckSince # ZeroTime
       /\ \E i \in 1..Len(transLog[j]) : transLog[j][i].to = "not_alerting"

\* C34: a SCHEDULER alert is returned only 5 minutes or more after the
\* last one and sets last_alert_time; a poll without one leaves
\* last_alert_time as it was; a poll that finds the scheduler inactive
\* within 5 minutes of the last SCHEDULER alert returns no alert and
\* increments consecutive_inactive.
SchedulerAlertsApart ==
    [][ PollOnRows =>
           /\ alerts'["SCHEDULER"] # <<>> =>
                 /\ now - schedulerState.LastAlertTime >= SuppressMinutes
                 /\ schedulerState'.LastAlertTime = now
           /\ alerts'["SCHEDULER"] = <<>> =>
                 schedulerState'.LastAlertTime = schedulerState.LastAlertTime
           /\ ( /\ BothZero(call'.recent, call'.upcoming)
                /\ now - schedulerState.LastAlertTime < SuppressMinutes )
              => /\ alerts'["SCHEDULER"] = <<>>
                 /\ schedulerState'.ConsecutiveInactive = schedulerState.ConsecutiveInactive + 1
      ]_vars

\* an inactive poll 2 minutes after a SCHEDULER alert, at or above the
\* debounce depth, returned no alert and counted
SchedulerAlertsApartWitness ==
    /\ SchedulerChecked
    /\ BothZero(call.recent, call.upcoming)
    /\ now - pollLog["SCHEDULER"].before.LastAlertTime = 2
    /\ alerts["SCHEDULER"] = <<>>
    /\ schedulerState.LastAlertTime = pollLog["SCHEDULER"].before.LastAlertTime
    /\ schedulerState.ConsecutiveInactive = pollLog["SCHEDULER"].before.ConsecutiveInactive + 1
    /\ schedulerState.ConsecutiveInactive >= SchedulerDepth

\* the configuration in which the thresholds that resolve for the job are
\* the global ones, a zero replaced by the built-in default
ZeroSubstituted(c, jobCode) ==
    [c EXCEPT !.Detection = SetDefaults(GetDetectionConfig(c, jobCode)), !.CronGroups = <<>>]

\* C35: no threshold that resolves for a job is zero, and Analyze behaves on
\* every batch as it does with the built-in default in the place of a
\* threshold that resolved to zero.
ZeroMeansDefault ==
    /\ pc \in {"resolved", "analyzed"} =>
          \A f \in OverrideFields : ret[f] # 0
    /\ pc = "analyzed" =>
          /\ jobStates = Analyze(ZeroSubstituted(config, call.groupName), << >>,
                                 call.schedules, now).states
          /\ \A j \in Jobs :
                alerts[j] = Analyze(ZeroSubstituted(config, call.groupName), << >>,
                                    call.schedules, now).alerts[j]

\* the first cron_groups entry named name, as a set of at most one index
FirstGroup(c, name) ==
    { i \in 1..Len(c.CronGroups) :
        /\ c.CronGroups[i].Name = name
        /\ \A k \in 1..(i - 1) : c.CronGroups[k].Name # name }

\* C36: GetDetectionConfig returns for each of the five overridable fields
\* the value the first override named like the job sets, the global value
\* when there is no such override or it leaves the field unset; the lookback
\* window and the scheduler settings are the global ones; the configuration
\* is left as Load returned it.
GetDetectionConfigMerges ==
    pc \in {"resolved", "analyzed"} =>
        /\ \A f \in OverrideFields :
              /\ (\E i \in FirstGroup(config, call.groupName) : config.CronGroups[i][f] # <<>>)
                    => \A i \in FirstGroup(config, call.groupName) :
                          ret[f] = config.CronGroups[i][f][1]
              /\ ~(\E i \in FirstGroup(config, call.groupName) : config.CronGroups[i][f] # <<>>)
                    => ret[f] = config.Detection[f]
        /\ ret.LookbackWindow = config.Detection.LookbackWindow
        /\ ret.SchedulerInactivityMinutes = config.Detection.SchedulerInactivityMinutes
        /\ ret.SchedulerLookaheadMinutes = config.Detection.SchedulerLookaheadMinutes
        /\ config = Load(call.raw)

\* two overrides named like the job: the first sets max_pending_count and
\* not consecutive_errors, the second sets both
GetDetectionConfigMergesWitness ==
    /\ pc = "resolved"
    /\ Len(config.CronGroups) = 2
    /\ config.CronGroups[1].Name = call.groupName
    /\ config.CronGroups[2].Name = call.groupName
    /\ config.CronGroups[1].MaxPendingCount = <<1>>
    /\ config.CronGroups[1].ConsecutiveErrors = <<>>
    /\ config.CronGroups[2].MaxPendingCount = <<9>>
    /\ config.CronGroups[2].ConsecutiveErrors = <<9>>
    /\ ret.MaxPendingCount = 1
    /\ ret.ConsecutiveErrors = config.Detection.ConsecutiveErrors

\* C37: no job state ever has its last_status marker set, and the counter
\* a poll leaves is 0 only if the poll's batch had no running record of the
\* job over the threshold: the pending, consecutive-errors and missed
\* heuristics, whose conditions do not hold on such a poll, reset nothing.
LastStatusNeverSet ==
    \A j \in DOMAIN jobStates :
       /\ jobStates[j].LastStatus = ""
       /\ (pc = "select" /\ pollLog[j].streak["running"] > 0)
             => jobStates[j].ConsecutiveStuck > 0

\* the pending, errors or missed condition of the first poll cleared on the
\* second, which showed the long-running condition: the counter went on
LastStatusNeverSetWitness ==
    \E j \in DOMAIN jobStates :
       /\ pc = "select"
       /\ polls = 2
       /\ pollLog[j].streak["running"] = 1
       /\ \A k \in Kinds \ {"running"} : pollLog[j].streak[k] = 0
       /\ jobStates[j].LastStatus = ""
       /\ jobStates[j].ConsecutiveStuck >= 2

\* the pending, consecutive-errors and missed conditions that hold for the
\* job on the batch of the poll that ends with this step
HoldingNow(j) == Detected(GroupByJob(call'.rows, j), Threshold(j), now) \ {"running"}

Saturated(j) == [NewJobState(j) EXCEPT !.ConsecutiveStuck = 100]

\* the reasons the four heuristics produce for the job on the batch of the
\* poll that ends with this step
HeuristicReasons(j) ==
    { a[1].Reason :
        a \in { checkLongRunning(GroupByJob(call'.rows, j), Threshold(j), Saturated(j), now).alert,
                checkPendingAccumulation(GroupByJob(call'.rows, j), Threshold(j), Saturated(j), now).alert,
                checkConsecutiveErrors(GroupByJob(call'.rows, j), Threshold(j), Saturated(j), now).alert,
                checkMissedExecutions(GroupByJob(call'.rows, j), Threshold(j), Saturated(j), now).alert }
             \ {<<>>} }

\* C39: the reason of every transition to alerting DetectStateTransitions
\* emits is the reason one of the four heuristics produces on that batch,
\* never the fallback text.
TransitionReasonIsHeuristic ==
    [][ \A j \in Jobs :
           ( /\ PollOnRows
             /\ transitions'[j] # <<>>
             /\ transitions'[j][1].ToState = "alerting" )
           => /\ transitions'[j][1].Reason \in HeuristicReasons(j)
              /\ transitions'[j][1].Reason # "Multiple issues detected requiring attention"
      ]_vars

\* a transition to alerting emitted with debounce depth 2 carries the
\* long-running reason
TransitionReasonIsHeuristicWitness ==
    \E j \in Jobs :
       /\ pc = "select"
       /\ Threshold(j).ThresholdChecks = 2
       /\ transitions[j] # <<>>
       /\ transitions[j][1].ToState = "alerting"
       /\ transitions[j][1].Reason = "job running longer than max_running_time threshold (30m0s)"

====
